---------------------------- MODULE Spec2Model ----------------------------
(***************************************************************************)
(* A model of the srgb crate (mina86/srgb.rs): the gamma transfer          *)
(* functions of src/gamma.rs, evaluated in IEEE-754 binary32 arithmetic.   *)
(*                                                                         *)
(* TLC's integers are 32 bits wide, so the exact intermediate results of   *)
(* the floating point operations (48-bit products, powers of mantissas)    *)
(* are kept as natural numbers in limbs of 12 bits, least significant      *)
(* limb first, without leading zero limbs (zero is the empty sequence).    *)
(***************************************************************************)
EXTENDS Integers, Sequences, FiniteSets, TLC

----------------------------------------------------------------------------
(* Natural numbers of unbounded size.                                      *)

LimbBits == 6 + 6
BASE == 2 ^ LimbBits

Max(a, b) == IF a >= b THEN a ELSE b
Min(a, b) == IF a <= b THEN a ELSE b

RECURSIVE BN(_)
\* The limbs of a native natural number.
BN(n) == IF n = 0 THEN << >> ELSE << n % BASE >> \o BN(n \div BASE)

RECURSIVE BTrimLen(_, _)
BTrimLen(a, n) == IF n = 0 THEN 0 ELSE IF a[n] # 0 THEN n ELSE BTrimLen(a, n - 1)

\* Drops the leading zero limbs.
BTrim(a) == SubSeq(a, 1, BTrimLen(a, Len(a)))

Limb(a, i) == IF i >= 1 /\ i <= Len(a) THEN a[i] ELSE 0

RECURSIVE BCarryAt(_, _, _, _)
\* While columns are left: the carry is known and acc holds the limbs
\* below column i.
BCarryAt(c, i, carry, acc) ==
    IF i <= Len(c) /\ carry >= 0 /\ Len(acc) = i - 1
    THEN BCarryAt(c, i + 1, (c[i] + carry) \div BASE,
                  Append(acc, (c[i] + carry) % BASE))
    ELSE IF carry = 0 THEN acc ELSE acc \o BN(carry)

\* Propagates carries through the columns c[i..] (each below 2^31 - 2^19).
\* The concatenation makes a tuple of the columns, so that each is
\* evaluated once.
BCarry(c, i, carry, acc) == BCarryAt(c \o << >>, i, carry, acc)

BAdd(a, b) ==
    BCarry([i \in 1..Max(Len(a), Len(b)) |-> Limb(a, i) + Limb(b, i)], 1, 0, << >>)

RECURSIVE BBorrow(_, _, _, _, _)
BBorrow(a, b, i, borrow, acc) ==
    IF i > Len(a)
    THEN acc
    ELSE LET t == a[i] - Limb(b, i) - borrow
         IN IF t < 0
            THEN BBorrow(a, b, i + 1, 1, Append(acc, t + BASE))
            ELSE BBorrow(a, b, i + 1, 0, Append(acc, t))

\* a - b, for a >= b.
BSub(a, b) == BTrim(BBorrow(a, b, 1, 0, << >>))

RECURSIVE BCmpAt(_, _, _)
BCmpAt(a, b, i) ==
    IF i = 0 THEN 0
    ELSE IF a[i] < b[i] THEN -1
    ELSE IF a[i] > b[i] THEN 1
    ELSE BCmpAt(a, b, i - 1)

\* -1, 0 or 1 as a < b, a = b or a > b.
BCmp(a, b) ==
    IF Len(a) < Len(b) THEN -1
    ELSE IF Len(a) > Len(b) THEN 1
    ELSE BCmpAt(a, b, Len(a))

RECURSIVE ColSum(_, _, _, _, _)
ColSum(a, b, k, i, hi) ==
    IF i > hi THEN 0 ELSE a[i] * b[k + 1 - i] + ColSum(a, b, k, i + 1, hi)

BMul(a, b) ==
    IF Len(a) = 0 \/ Len(b) = 0
    THEN << >>
    ELSE BCarry([k \in 1..(Len(a) + Len(b) - 1) |->
                    ColSum(a, b, k, Max(1, k + 1 - Len(b)), Min(k, Len(a)))],
                1, 0, << >>)

BSquare(a) == BMul(a, a)

RECURSIVE BPow(_, _)
BPow(a, q) ==
    IF q = 0 THEN << 1 >>
    ELSE IF q = 1 THEN a
    ELSE IF q % 2 = 0 THEN BSquare(BPow(a, q \div 2))
    ELSE BMul(a, BPow(a, q - 1))

RECURSIVE BitLenSmall(_)
BitLenSmall(n) == IF n = 0 THEN 0 ELSE 1 + BitLenSmall(n \div 2)

\* The number of bits of a: 0 for zero, else floor(log2 a) + 1.
BBitLen(a) ==
    IF Len(a) = 0 THEN 0 ELSE LimbBits * (Len(a) - 1) + BitLenSmall(a[Len(a)])

\* a * 2^k
BShl(a, k) ==
    IF Len(a) = 0
    THEN << >>
    ELSE LET w == k \div LimbBits
             r == k % LimbBits
         IN [i \in 1..w |-> 0] \o
            BCarry([i \in 1..Len(a) |-> a[i] * (2 ^ r)], 1, 0, << >>)

\* floor(a / 2^k)
BShr(a, k) ==
    LET w == k \div LimbBits
        r == k % LimbBits
    IN IF w >= Len(a)
       THEN << >>
       ELSE BTrim([i \in 1..(Len(a) - w) |->
                     (a[i + w] \div (2 ^ r)) +
                     (Limb(a, i + w + 1) % (2 ^ r)) * (2 ^ (LimbBits - r))])

\* TRUE iff a is a multiple of 2^k.
BLowZero(a, k) ==
    LET w == k \div LimbBits
        r == k % LimbBits
    IN /\ \A i \in 1..Min(w, Len(a)) : a[i] = 0
       /\ Limb(a, w + 1) % (2 ^ r) = 0

\* Bit k (counted from 0) of a.
BBit(a, k) == (Limb(a, (k \div LimbBits) + 1) \div (2 ^ (k % LimbBits))) % 2

\* A number below 2^31 as a native integer.
BToInt(a) == Limb(a, 1) + Limb(a, 2) * BASE + Limb(a, 3) * BASE * BASE

HALF == 2 ^ (LimbBits \div 2)

\* One limb of a long division by d: the quotient limb and the remainder,
\* half a limb at a time (r < d <= 2^24 keeps r * HALF native).
DivLimb(r, limb, d) ==
    LET r1 == r * HALF + (limb \div HALF)
        r2 == (r1 % d) * HALF + (limb % HALF)
    IN [quot |-> (r1 \div d) * HALF + (r2 \div d), rem |-> r2 % d]

RECURSIVE BDivAt(_, _, _, _, _)
\* While limbs are left: r < d is the remainder of the limbs above i and
\* acc their quotient.
BDivAt(a, d, i, r, acc) ==
    IF i > 0 /\ r < d /\ Len(acc) = Len(a) - i
    THEN LET dl == DivLimb(r, a[i], d)
         IN BDivAt(a, d, i - 1, dl.rem, << dl.quot >> \o acc)
    ELSE acc

\* floor(a / d) for a native 0 < d <= 2^24.
BDivSmall(a, d) == BTrim(BDivAt(a \o << >>, d, Len(a), 0, << >>))

RECURSIVE BDivPow(_, _, _)
\* floor(a / d^n)
BDivPow(a, d, n) ==
    IF n = 0 \/ Len(a) = 0 THEN a ELSE BDivPow(BDivSmall(a, d), d, n - 1)

RECURSIVE IRootFrom(_, _, _)
RECURSIVE IRootNext(_, _, _, _)
\* Newton's iteration for the q-th root of N, downwards from m: it stops
\* at floor(N^(1/q)) when started at or above it.
IRootNext(N, q, m, next) == IF next >= m THEN m ELSE IRootFrom(N, q, next)

IRootFrom(N, q, m) ==
    IRootNext(N, q, m, ((q - 1) * m + BToInt(BDivPow(N, m, q - 1))) \div q)

\* An upper bound of the q-th root of a number of L bits: with L = a*q + f
\* the root is below 2^(L/q) <= 2^a * (1 + f/q).
IRootAbove(q, L, a) == (2 ^ a) + (((2 ^ a) * (L % q) + q - 1) \div q)

IRootBits(N, q, L) == IRootFrom(N, q, IRootAbove(q, L, L \div q))

\* floor(N^(1/q)) for a root below 2^24.
IRoot(N, q) ==
    IF Len(N) = 0 THEN 0
    ELSE IF q = 1 THEN BToInt(N)
    ELSE IRootBits(N, q, BBitLen(N))


----------------------------------------------------------------------------
(* IEEE-754 binary32 (Rust's f32).  A finite value is sign, mantissa m and *)
(* exponent e, standing for (-1)^sign * m * 2^e, in its canonical form:    *)
(* 2^23 <= m < 2^24 (normal), or e = EMIN and m < 2^23 (subnormal and      *)
(* zero).  Infinities and NaN carry m = 0, e = 0.                          *)

MantBits == 23 + 1
EMIN == 0 - 149
EMAX == 127 - 23
TwoP23 == 2 ^ 23
TwoP24 == 2 ^ 24

NaN == [cls |-> "nan", sign |-> 0, m |-> 0, e |-> 0]
Inf(sign) == [cls |-> "inf", sign |-> sign, m |-> 0, e |-> 0]
Zero(sign) == [cls |-> "fin", sign |-> sign, m |-> 0, e |-> EMIN]

IsNaN(a) == a.cls = "nan"
IsInf(a) == a.cls = "inf"
IsFin(a) == a.cls = "fin"
IsZero(a) == a.cls = "fin" /\ a.m = 0

Xor(s, t) == (s + t) % 2

\* The canonical form of m * 2^e, for 0 < m < 2^24 and e >= EMIN.
MkFinShifted(sign, m, e, sh) ==
    IF e - sh > EMAX
    THEN Inf(sign)
    ELSE [cls |-> "fin", sign |-> sign, m |-> m * (2 ^ sh), e |-> e - sh]

MkFin(sign, m, e) ==
    MkFinShifted(sign, m, e, Min(MantBits - BitLenSmall(m), e - EMIN))

\* (-1)^sign * N * 2^e rounded to the nearest f32, ties to even; N unbounded.
\* The same for a mantissa m1 that is already rounded.
RoundMant(sign, m1, e) ==
    IF m1 = 0 THEN Zero(sign)
    ELSE IF m1 = TwoP24 THEN MkFin(sign, TwoP23, e + 1)
    ELSE MkFin(sign, m1, e)

\* m0 = floor(N / 2^d) rounded up iff the bits dropped say so.
RoundUp(N, d, m0) ==
    IF BBit(N, d - 1) = 1 /\ (~BLowZero(N, d - 1) \/ m0 % 2 = 1) THEN m0 + 1 ELSE m0

\* Round, dropping the d lowest bits of N.
RoundDrop(sign, N, e, d) ==
    IF d <= 0
    THEN MkFin(sign, BToInt(N), e)
    ELSE RoundMant(sign, RoundUp(N, d, BToInt(BShr(N, d))), e + d)

Round(sign, N, e) ==
    IF Len(N) = 0
    THEN Zero(sign)
    ELSE RoundDrop(sign, N, e, Max(BBitLen(N) - MantBits, EMIN - e))

\* `n as f32` for an integer |n| < 2^24 (exact).
FromInt(n) ==
    IF n = 0 THEN Zero(0)
    ELSE IF n < 0 THEN MkFin(1, 0 - n, 0)
    ELSE MkFin(0, n, 0)

FNeg(a) == IF IsNaN(a) THEN a ELSE [a EXCEPT !.sign = 1 - a.sign]

\* -1, 0, 1 for the order of the magnitudes of two finite values.
CmpMag(a, b) ==
    IF a.m = 0 \/ b.m = 0
    THEN (IF a.m = b.m THEN 0 ELSE IF a.m = 0 THEN -1 ELSE 1)
    ELSE IF a.e # b.e
    THEN (IF a.e < b.e THEN -1 ELSE 1)
    ELSE IF a.m < b.m THEN -1
    ELSE IF a.m > b.m THEN 1
    ELSE 0

\* -1, 0, 1 for a < b, a == b, a > b; neither is NaN.
FCmp(a, b) ==
    IF IsZero(a) /\ IsZero(b) THEN 0
    ELSE IF a.sign # b.sign THEN (IF a.sign = 1 THEN -1 ELSE 1)
    ELSE (IF a.sign = 1 THEN -1 ELSE 1) *
         (IF IsInf(a) /\ IsInf(b) THEN 0
          ELSE IF IsInf(a) THEN 1
          ELSE IF IsInf(b) THEN -1
          ELSE CmpMag(a, b))

\* The comparison operators of f32: every comparison with NaN is false.
FGt(a, b) == ~IsNaN(a) /\ ~IsNaN(b) /\ FCmp(a, b) = 1
FLt(a, b) == ~IsNaN(a) /\ ~IsNaN(b) /\ FCmp(a, b) = -1
FLe(a, b) == ~IsNaN(a) /\ ~IsNaN(b) /\ FCmp(a, b) <= 0
FGe(a, b) == ~IsNaN(a) /\ ~IsNaN(b) /\ FCmp(a, b) >= 0
FEq(a, b) == ~IsNaN(a) /\ ~IsNaN(b) /\ FCmp(a, b) = 0

\* a * b
FMul(a, b) ==
    IF IsNaN(a) \/ IsNaN(b) THEN NaN
    ELSE IF IsInf(a) \/ IsInf(b)
    THEN (IF IsZero(a) \/ IsZero(b) THEN NaN ELSE Inf(Xor(a.sign, b.sign)))
    ELSE Round(Xor(a.sign, b.sign), BMul(BN(a.m), BN(b.m)), a.e + b.e)

\* The exact sum of sa*Na*2^ea and sb*Nb*2^eb, rounded once.  A zero sum of
\* nonzero terms is +0; a sum of zeros keeps the sign the terms share.
SumOrdered(sa, A, sb, B, e0, c) ==
    IF sa = sb THEN Round(sa, BAdd(A, B), e0)
    ELSE IF c = 0 THEN Zero(0)
    ELSE IF c > 0 THEN Round(sa, BSub(A, B), e0)
    ELSE Round(sb, BSub(B, A), e0)

SumAligned(sa, A, sb, B, e0) == SumOrdered(sa, A, sb, B, e0, BCmp(A, B))

SumAt(sa, Na, ea, sb, Nb, eb, e0) ==
    SumAligned(sa, BShl(Na, ea - e0), sb, BShl(Nb, eb - e0), e0)

SumRound(sa, Na, ea, sb, Nb, eb) == SumAt(sa, Na, ea, sb, Nb, eb, Min(ea, eb))

\* a + b
FAdd(a, b) ==
    IF IsNaN(a) \/ IsNaN(b) THEN NaN
    ELSE IF IsInf(a) /\ IsInf(b) THEN (IF a.sign = b.sign THEN a ELSE NaN)
    ELSE IF IsInf(a) THEN a
    ELSE IF IsInf(b) THEN b
    ELSE SumRound(a.sign, BN(a.m), a.e, b.sign, BN(b.m), b.e)

\* a - b
FSub(a, b) == FAdd(a, FNeg(b))

\* f32::mul_add(a, b, c): a * b + c with a single rounding.
FusedMulAdd(a, b, c) ==
    IF IsNaN(a) \/ IsNaN(b) \/ IsNaN(c) THEN NaN
    ELSE IF IsInf(a) \/ IsInf(b)
    THEN (IF IsZero(a) \/ IsZero(b) THEN NaN
          ELSE IF IsInf(c) /\ c.sign # Xor(a.sign, b.sign) THEN NaN
          ELSE Inf(Xor(a.sign, b.sign)))
    ELSE IF IsInf(c) THEN c
    ELSE SumRound(Xor(a.sign, b.sign), BMul(BN(a.m), BN(b.m)), a.e + b.e,
                  c.sign, BN(c.m), c.e)

----------------------------------------------------------------------------
(* Correct rounding of quotients and of roots of rationals.  The value is  *)
(* v = (T0 / d^n)^(1/q) * 2^k for a natural number T0 > 0 and native d > 0: *)
(* a quotient has q = 1.  It is located on the f32 grid exactly, by an     *)
(* integer division and an integer root.                                   *)

\* TRUE iff 2^(q*E) <= T0 / D0.
PowTwoLeq(E, q, D0, T0) ==
    IF E >= 0
    THEN BCmp(BShl(D0, q * E), T0) <= 0
    ELSE BCmp(D0, BShl(T0, q * (0 - E))) <= 0

\* floor(log2((T0 / D0)^(1/q))): the bit lengths leave three candidates.
RootLog2From(q, D0, T0, hi) ==
    IF PowTwoLeq(hi, q, D0, T0) THEN hi
    ELSE IF PowTwoLeq(hi - 1, q, D0, T0) THEN hi - 1
    ELSE IF PowTwoLeq(hi - 2, q, D0, T0) THEN hi - 2
    ELSE hi - 3

RootLog2(q, D0, T0) ==
    RootLog2From(q, D0, T0, (BBitLen(T0) - BBitLen(D0) + 1) \div q)

\* Where v lies on the grid: m * 2^e <= v < (m + 1) * 2^e with e + k the
\* exponent of the f32 below v; mid is -1, 0, 1 as v is below, at or above
\* the midpoint (m + 1/2) * 2^e.
GridMid(q, k, e, D, T, m) ==
    [m |-> m, e |-> e + k,
     mid |-> BCmp(BShl(T, q), BMul(BPow(BN(2 * m + 1), q), D))]

\* With D0 and T0 scaled to D and T, which make the quotient's root an
\* integer mantissa: T = T0 when e >= 0.
GridScaled(q, d, n, k, e, D, T) ==
    GridMid(q, k, e, D, T,
            IRoot(IF e >= 0 THEN BShr(BDivPow(T, d, n), q * e)
                  ELSE BDivPow(T, d, n), q))

GridAtExp(q, d, n, T0, k, D0, e) ==
    GridScaled(q, d, n, k, e,
               IF e >= 0 THEN BShl(D0, q * e) ELSE D0,
               IF e >= 0 THEN T0 ELSE BShl(T0, q * (0 - e)))

GridOver(q, d, n, T0, k, D0) ==
    GridAtExp(q, d, n, T0, k, D0,
              Max(RootLog2(q, D0, T0) - (MantBits - 1), EMIN - k))

GridPos(q, d, n, T0, k) == GridOver(q, d, n, T0, k, BPow(BN(d), n))

\* The f32 of mantissa m (0 <= m <= 2^24) and exponent e >= EMIN.
OnGrid(sign, m, e) ==
    IF m = 0 THEN Zero(sign)
    ELSE IF m = TwoP24 THEN MkFin(sign, TwoP23, e + 1)
    ELSE MkFin(sign, m, e)

\* v rounded to the nearest f32, ties to even.
RoundGrid(sign, g) ==
    IF g.mid > 0 \/ (g.mid = 0 /\ g.m % 2 = 1)
    THEN OnGrid(sign, g.m + 1, g.e)
    ELSE OnGrid(sign, g.m, g.e)

RoundRoot(sign, q, d, n, T0, k) == RoundGrid(sign, GridPos(q, d, n, T0, k))

\* a / b
FDiv(a, b) ==
    IF IsNaN(a) \/ IsNaN(b) THEN NaN
    ELSE IF IsInf(a) THEN (IF IsInf(b) THEN NaN ELSE Inf(Xor(a.sign, b.sign)))
    ELSE IF IsInf(b) THEN Zero(Xor(a.sign, b.sign))
    ELSE IF IsZero(b) THEN (IF IsZero(a) THEN NaN ELSE Inf(Xor(a.sign, b.sign)))
    ELSE IF IsZero(a) THEN Zero(Xor(a.sign, b.sign))
    ELSE RoundRoot(Xor(a.sign, b.sign), 1, b.m, 1, BN(a.m), a.e - b.e)

\* A decimal literal of the source with up to 18 significant digits,
\* (hi * 10^9 + lo) / 10^scale, as rustc reads it into an f32: the nearest.
LitOf(N, scale) ==
    IF Len(N) = 0 THEN Zero(0) ELSE RoundRoot(0, 1, 10, scale, N, 0)

Lit(hi, lo, scale) == LitOf(BAdd(BMul(BN(hi), BN(10 ^ 9)), BN(lo)), scale)

\* f32::max and f32::min: a NaN operand is ignored.  Of two zeros of
\* opposite sign either may be returned; every use in this crate multiplies
\* the result or passes it to powf, where the sign of zero is lost.
f32_max(a, b) ==
    IF IsNaN(a) THEN b ELSE IF IsNaN(b) THEN a ELSE IF FCmp(a, b) < 0 THEN b ELSE a

f32_min(a, b) ==
    IF IsNaN(a) THEN b ELSE IF IsNaN(b) THEN a ELSE IF FCmp(a, b) > 0 THEN b ELSE a

\* `a as u8` / `a as u16`: truncation toward zero, saturating at the bounds
\* of the type [0, top]; NaN gives 0.
AsUInt(a, top) ==
    IF IsNaN(a) THEN 0
    ELSE IF a.sign = 1 THEN 0
    ELSE IF IsInf(a) THEN top
    ELSE IF a.m = 0 THEN 0
    ELSE IF a.e >= 0 THEN (IF a.e >= 7 THEN top ELSE Min(top, a.m * (2 ^ a.e)))
    ELSE IF a.e <= 0 - MantBits THEN 0
    ELSE Min(top, a.m \div (2 ^ (0 - a.e)))

\* f32::to_bits of a positive finite value, and f32::from_bits back.
to_bits(a) ==
    IF a.m < TwoP23 THEN a.m ELSE (a.e - EMIN + 1) * TwoP23 + (a.m - TwoP23)

from_bits(b) ==
    IF b < TwoP23 THEN OnGrid(0, b, EMIN)
    ELSE OnGrid(0, TwoP23 + (b % TwoP23), (b \div TwoP23) + EMIN - 1)

----------------------------------------------------------------------------
(* f32::powf.  The exponents of this crate are the f32 nearest to 5/12,    *)
(* 5/11, 11/5 and 12/5: y = p/q + t with |t| below 2^-23.  libm's powf is  *)
(* not correctly rounded and differs between targets; what every libm      *)
(* gives is a result less than one unit in the last place from x^y.  For   *)
(* g the f32 just below x^(p/q), found exactly, and                        *)
(*      x^y = x^(p/q) * exp(t * ln x),   |ln x| <= Lb * ln 2,              *)
(* x^y lies within K = ceil(|t| * 2^24 * Lb * 0.6932) units of x^(p/q), on *)
(* the side the signs of t and ln x give.  powf is therefore a set: the    *)
(* f32 from g to K + 1 units above it, or from K units below it to one     *)
(* above it.                                                               *)

\* The fraction p/q of small terms within two units in the last place of y.
PowRat(y) ==
    CHOOSE pq \in (1..12) \X (1..12) :
        LET d == pq[1] * (2 ^ (0 - y.e)) - y.m * pq[2]
        IN /\ d <= 2 * pq[2] /\ 0 - d <= 2 * pq[2]
           /\ \A g \in 2..12 : pq[1] % g # 0 \/ pq[2] % g # 0

\* floor(log2 x) for a positive finite x.
Log2Floor(x) == BitLenSmall(x.m) - 1 + x.e

\* (p/q - y) * q * 2^(-y.e): its sign is that of p/q - y.
PowExcessOf(y, pq) == pq[1] * (2 ^ (0 - y.e)) - y.m * pq[2]

PowExcess(y) == PowExcessOf(y, PowRat(y))

\* ceil(num * Lb * 0.6932 / den)
PowSlackOf(num, den, Lb) == (num * Lb * 6932 + den * 10000 - 1) \div (den * 10000)

PowSlackFrom(y, pq, d, lg) ==
    PowSlackOf((IF d < 0 THEN 0 - d ELSE d) * (2 ^ Max(0, MantBits + y.e)),
               pq[2] * (2 ^ Max(0, 0 - y.e - MantBits)),
               IF lg < 0 THEN 0 - lg ELSE lg + 1)

\* K above, for a positive finite x # 1.
PowSlack(x, y) == PowSlackFrom(y, PowRat(y), PowExcess(y), Log2Floor(x))

PowGridOf(x, pq, pe) ==
    GridPos(pq[2], 1, 0, BShl(BPow(BN(x.m), pq[1]), pe % pq[2]), pe \div pq[2])

PowGridRat(x, pq) == PowGridOf(x, pq, pq[1] * x.e)

\* The f32 just below x^(p/q), as a grid position, for positive finite x.
PowGrid(x, y) == PowGridRat(x, PowRat(y))

\* The distances, in units in the last place, from the f32 just below
\* x^(p/q) at which a libm may put powf(x, y).  Below a power of two the
\* units are half as long.
PowWindowOf(above, g, K) ==
    IF above THEN 0 .. (K + 1)
    ELSE (0 - (IF g.m - K >= TwoP23 THEN K ELSE 2 * K + 1)) .. 1

PowWindow(x, y, g) ==
    PowWindowOf((Log2Floor(x) < 0) = (PowExcess(y) > 0), g, PowSlack(x, y))

PowAround(x, y, g, below) ==
    IF IsInf(below) THEN {below}
    ELSE {from_bits(Max(0, to_bits(below) + j)) : j \in PowWindow(x, y, g)}

PowNear(x, y, g) == PowAround(x, y, g, OnGrid(0, g.m, g.e))

\* x.powf(y) for the exponents y > 0 of this crate (none is an integer):
\* the set of the results a libm may give.
powf(x, y) ==
    IF IsNaN(x) THEN {NaN}
    ELSE IF IsZero(x) THEN {Zero(0)}
    ELSE IF x.sign = 1 THEN (IF IsInf(x) THEN {Inf(0)} ELSE {NaN})
    ELSE IF IsInf(x) THEN {Inf(0)}
    ELSE IF x = MkFin(0, 1, 0) THEN {x}
    ELSE PowNear(x, y, PowGrid(x, y))

\* crate::maths::mul_add: fused iff the crate is built for a target with
\* the `fma` feature.
mul_add(fma, a, b, c) ==
    IF fma THEN FusedMulAdd(a, b, c) ELSE FAdd(FMul(a, b), c)

----------------------------------------------------------------------------
(* The constants build.rs generates into gamma_constants.rs.               *)

\* gamma_compress_lin_part(x) < gamma_compress_pow_part(x) for the rational
\* x = A / B: 12.92 x < 1.055 x^(5/12) - 0.055, decided exactly as
\* (12920 A + 55 B)^12 < 1055^12 A^5 B^7.
LinBelowPow(A, B) ==
    BCmp(BPow(BAdd(BMul(BN(12920), A), BMul(BN(55), B)), 12),
         BMul(BPow(BN(1055), 12), BMul(BPow(A, 5), BPow(B, 7)))) < 0

RECURSIVE calc_gamma_threshold(_, _, _, _)
\* The bisection of build.rs over the mantissas lo..hi of x = m * num / den:
\* the last mantissa at which the linear piece is below the power piece.
calc_gamma_threshold(lo, hi, num, den) ==
    IF hi - lo <= 1
    THEN lo
    ELSE LET mid == (lo + hi) \div 2
         IN IF LinBelowPow(BMul(BN(mid), num), den)
            THEN calc_gamma_threshold(mid, hi, num, den)
            ELSE calc_gamma_threshold(lo, mid, num, den)

\* The threshold m * 2^e (times num / den) written as an f32 literal: the
\* f32 nearest to the crossing point, which lies between m and m + 1.
ThresholdNear(m, e, num, den) ==
    IF LinBelowPow(BMul(BN(2 * m + 1), num), BShl(den, 1 - e))
    THEN OnGrid(0, m + 1, e)
    ELSE OnGrid(0, m, e)

ThresholdLit(lo, hi, e, num, den) ==
    ThresholdNear(calc_gamma_threshold(lo.m, hi.m, BShl(num, 1), BShl(den, 1 - e)),
                  e, num, den)

\* The threshold inside the bracket [lo, hi], two f32 of one exponent.
ThresholdIn(lo, hi, num, den) == ThresholdLit(lo, hi, lo.e, num, den)

\* S_0: the crossing point inside the bracket [0.0030, 0.0032] of build.rs.
S_0 == ThresholdIn(Lit(0, 30, 4), Lit(0, 32, 4), << 1 >>, << 1 >>)

\* E_0 = 12.92 * s0: the crossing point in the encoded domain, x = E / 12.92.
E_0 ==
    ThresholdIn(RoundRoot(0, 1, 1000000, 1, BN(1292 * 30), 0),
                RoundRoot(0, 1, 1000000, 1, BN(1292 * 32), 0),
                BN(100), BN(1292))

\* calc_gamma_threshold::<f64>().  The f64 between 0.0030 and 0.0032 lie
\* in [2^-9, 2^-8) and are the whole multiples of 2^-61: lo, hi and mid are
\* kept as their numerators.
F64_GRID == 61

\* The f64 nearest to n / d, for 2^-9 <= n / d < 2^-8.
F64Lit(n, d) == BDivSmall(BAdd(BShl(BN(n), F64_GRID + 1), BN(d)), 2 * d)

\* (lo + hi) / 2 in f64: the sum is rounded to a multiple of 2^-60, a tie
\* to the even one, and halved exactly.
bisect_mid_from(half) ==
    IF Len(half) = 0 \/ half[1] % 2 = 0 THEN half ELSE BAdd(half, << 1 >>)

bisect_mid(lo, hi) ==
    IF Limb(BAdd(lo, hi), 1) % 2 = 0
    THEN BShr(BAdd(lo, hi), 1)
    ELSE bisect_mid_from(BShr(BAdd(lo, hi), 1))

\* The evaluation of the two pieces in f64 rounds the constants, the
\* products, powf and the difference; what it leaves of each piece is
\* within 2^-F64_MARGIN of the piece.
F64_MARGIN == 50

\* The order of 12.92 x p and 1.055 x^(5/12) q - 0.055 2^F64_MARGIN at
\* x = A / 2^F64_GRID, decided exactly by the 12th powers.
PiecesCmp(A, p, q) ==
    BCmp(BPow(BAdd(BMul(BMul(BN(12920), A), p),
                   BShl(BN(55), F64_GRID + F64_MARGIN)), 12),
         BMul(BPow(BMul(BN(1055), q), 12), BShl(BPow(A, 5), 7 * F64_GRID)))

\* 2^F64_MARGIN + k for k = -1, 0, 1.
MarginBy(k) ==
    IF k > 0 THEN BAdd(BShl(<< 1 >>, F64_MARGIN), << 1 >>)
    ELSE IF k < 0 THEN BSub(BShl(<< 1 >>, F64_MARGIN), << 1 >>)
    ELSE BShl(<< 1 >>, F64_MARGIN)

\* Whether lhs.partial_cmp(&rhs) can be Less at mid = A / 2^F64_GRID:
\* with margin 0 whether the linear piece is below the power piece, with
\* margin 1 whether it is below by more than the evaluation can hide, with
\* margin -1 whether it is not above by more than that.
CanBeLess(A, margin) ==
    PiecesCmp(A, MarginBy(margin), MarginBy(0 - margin)) < (IF margin < 0 THEN 1 ELSE 0)

RECURSIVE LastLessIn(_, _, _, _)
\* The last A in a..b at which CanBeLess holds, which it does at a and
\* does not at b; mid is the point between a and b.
LastLessIn(a, b, mid, margin) ==
    IF BCmp(BAdd(a, << 1 >>), b) >= 0 THEN a
    ELSE IF CanBeLess(mid, margin)
    THEN LastLessIn(mid, b, BShr(BAdd(mid, b), 1), margin)
    ELSE LastLessIn(a, mid, BShr(BAdd(a, mid), 1), margin)

\* T::from(0.0030_f64) and T::from(0.0032_f64)
BISECT_LO == F64Lit(30, 10000)
BISECT_HI == F64Lit(32, 10000)

\* The last f64 of the first bracket at which CanBeLess holds.  With
\* margin 0 the crossing point lies between it and the next f64; with
\* margin 1 it is the last f64 at which the evaluation cannot but find the
\* linear piece below, with margin -1 the last at which it can find it
\* below or equal.
LastLess(margin) ==
    LastLessIn(BISECT_LO, BISECT_HI, BShr(BAdd(BISECT_LO, BISECT_HI), 1), margin)

\* What lhs.partial_cmp(&rhs) can return at mid, b.surely and b.maybe
\* being LastLess(1) and LastLess(-1).
partial_cmp_at(b, mid) ==
    IF BCmp(mid, b.surely) <= 0 THEN {"Less"}
    ELSE IF BCmp(mid, b.maybe) > 0 THEN {"Greater"}
    ELSE {"Less", "Greater", "Equal"}

\* The arms of the match with lo and hi exchanged.
bisect_arms_exchanged(b, mid, ordering) ==
    [b EXCEPT !.lo = IF ordering = "Greater" THEN mid ELSE b.lo,
              !.hi = IF ordering = "Less" THEN mid ELSE b.hi,
              !.mid = mid,
              !.turn = b.turn + 1,
              !.last = ordering]

\* One turn of the loop from the locals b with the comparison's result:
\* Less => lo = mid, Greater => hi = mid, otherwise break.
bisect_arms(b, mid, ordering) ==
    [b EXCEPT !.lo = IF ordering = "Less" THEN mid ELSE b.lo,
              !.hi = IF ordering = "Greater" THEN mid ELSE b.hi,
              !.mid = mid,
              !.turn = b.turn + 1,
              !.last = ordering]

\* size_of::<f64>() * 8
BISECT_TURNS == 64

\* U8_TO_LINEAR_LUT with the power formula for every code.
U8_TO_LINEAR_LUT_power ==
    [v \in 0..255 |->
        RoundRoot(0, 5, 1055 * 255, 12, BPow(BN(v * 1000 + 55 * 255), 12), 0)]

\* Entry v of U8_TO_LINEAR_LUT: rug evaluates it with 512 bits, prints 24
\* digits, and rustc reads the literal into the nearest f32.
U8_TO_LINEAR_LUT ==
    [v \in 0..255 |->
        IF v <= AsUInt(FMul(E_0, FromInt(255)), 255)
        THEN IF v = 0 THEN Zero(0) ELSE RoundRoot(0, 1, 32946, 1, BN(v * 10), 0)
        ELSE RoundRoot(0, 5, 1055 * 255, 12,
                       BPow(BN(v * 1000 + 55 * 255), 12), 0)]

----------------------------------------------------------------------------
(* src/gamma.rs                                                            *)

F_0_0 == Zero(0)
F_0_5 == Lit(0, 5, 1)
F_1_0 == FromInt(1)
F_255 == FromInt(255)
F_12_92 == Lit(0, 1292, 2)
F_0_055 == Lit(0, 55, 3)
F_1_055 == Lit(0, 1055, 3)
F_4_5 == Lit(0, 45, 1)
F_0_018 == Lit(0, 18, 3)
F_0_099 == Lit(0, 99, 3)
F_1_099 == Lit(0, 1099, 3)

\* The largest values of u8 and u16.
U8_MAX == 2 ^ 8 - 1
U16_MAX == 2 ^ 16 - 1

\* The exponents, as the f32 expressions of the source evaluate.
Y_5_12 == FDiv(FromInt(5), FromInt(12))
Y_2_2 == Lit(0, 22, 1)
Y_1_2_2 == FDiv(F_1_0, Y_2_2)
Y_2_4 == Lit(0, 24, 1)
Y_1_2_4 == FDiv(F_1_0, Y_2_4)

FAST_START_AT == Lit(31919535, 67975154, 19)
FAST_START_255_AT == Lit(9954979, 522975671, 16)
FAST_BITS_OFFSET == 994926221
FAST_SHIFT == 19

\* The literals of FAST_LUT as hi, lo and scale of Lit.
FAST_LUT_LITERALS == <<
    << 10842953, 690763022, 15 >>, << 11247256, 975805167, 15 >>,
    << 11596920, 589218305, 15 >>, << 11974676, 118377491, 15 >>,
    << 12347806, 123119943, 15 >>, << 1272714, 106745028, 14 >>,
    << 13094275, 703436033, 15 >>, << 1363805, 819726478, 14 >>,
    << 14292937, 686709234, 15 >>, << 14923680, 771165712, 15 >>,
    << 15570126, 974440122, 15 >>, << 16209820, 658051132, 15 >>,
    << 1676447, 39487231, 14 >>, << 17337253, 305518896, 15 >>,
    << 17896354, 278599194, 15 >>, << 18475192, 108100988, 15 >>,
    << 19002640, 297704545, 15 >>, << 19522935, 134467726, 15 >>,
    << 20041242, 37921712, 15 >>, << 2044552, 429210586, 14 >>,
    << 2100679, 130121049, 14 >>, << 2147038, 533959708, 14 >>,
    << 2195723, 744906331, 14 >>, << 22740790, 57148146, 15 >>,
    << 23629638, 990247546, 15 >>, << 24528352, 342327914, 15 >>,
    << 25344989, 332552313, 15 >>, << 26150728, 850828973, 15 >>,
    << 26931743, 687393734, 15 >>, << 2769293, 355977654, 14 >>,
    << 2845446, 820605869, 14 >>, << 29163328, 918736447, 15 >>,
    << 2988016, 655621456, 14 >>, << 30541704, 620580504, 15 >>,
    << 31283955, 72170404, 15 >>, << 31909339, 744941736, 15 >>,
    << 3257861, 591749353, 14 >>, << 3322128, 809353077, 14 >>,
    << 33860388, 301927244, 15 >>, << 3486071, 45271506, 14 >>,
    << 3605023, 219119529, 14 >>, << 3719627, 12057453, 14 >>,
    << 3833638, 181546821, 14 >>, << 3940630, 933386438, 14 >>,
    << 40480161, 375261915, 15 >>, << 4150097, 43065091, 14 >>,
    << 4248497, 905447285, 14 >>, << 4344071, 136587259, 14 >>,
    << 44416934, 554423975, 15 >>, << 453332, 498678882, 13 >>,
    << 4624404, 859335657, 14 >>, << 47115083, 409448665, 15 >>,
    << 48000760, 775816545, 15 >>, << 4886182, 846076076, 14 >>,
    << 4968975, 696485138, 14 >>, << 5105894, 889111046, 14 >>,
    << 5265192, 977911797, 14 >>, << 5418507, 435324061, 14 >>,
    << 5567581, 775800756, 14 >>, << 571224, 420380186, 13 >>,
    << 58526096, 385269604, 15 >>, << 59882603, 744104806, 15 >>,
    << 6122115, 631317263, 14 >>, << 6252368, 891793067, 14 >>,
    << 63785800, 901727924, 15 >>, << 6503864, 110345859, 14 >>,
    << 6623138, 631030096, 14 >>, << 6743407, 436283562, 14 >>,
    << 6858192, 908335137, 14 >>, << 6973662, 278145312, 14 >>,
    << 7085981, 71029647, 14 >>, << 72691, 567255648, 12 >>,
    << 7480948, 140598991, 14 >>, << 7685585, 905387728, 14 >>,
    << 788411, 48501123, 13 >>, << 8076906, 363534704, 14 >>,
    << 8264367, 220796105, 14 >>, << 844680, 915856258, 13 >>,
    << 8624182, 355126462, 14 >>, << 8798035, 912297826, 14 >>,
    << 8967241, 895226687, 14 >>, << 9132473, 5724265, 14 >>,
    << 9294833, 612001699, 14 >>, << 9453132, 666465619, 14 >>,
    << 960886, 285884802, 13 >>, << 9759136, 88906574, 14 >>,
    << 9910827, 936108777, 14 >>, << 10155122, 267350802, 14 >>,
    << 10437534, 49860218, 14 >>, << 10710956, 846611478, 14 >>,
    << 10976245, 842045016, 14 >>, << 11233487, 273840012, 14 >>,
    << 11483812, 19182777, 14 >>, << 11727118, 243546161, 14 >>,
    << 1196465, 610745734, 13 >>, << 12196191, 517878458, 14 >>,
    << 12422149, 67968998, 14 >>, << 12643203, 722300153, 14 >>,
    << 12859477, 860091027, 14 >>, << 13071537, 331816762, 14 >>,
    << 13279010, 699255343, 14 >>, << 1348231, 304635986, 13 >>,
    << 13681839, 992088112, 14 >>, << 14007622, 800979328, 14 >>,
    << 14385020, 337902137, 14 >>, << 14750467, 279470942, 14 >>,
    << 15103984, 651898168, 14 >>, << 1544785, 449067233, 13 >>,
    << 1578141, 534496148, 13 >>, << 16106490, 567147762, 14 >>,
    << 16423388, 376212907, 14 >>, << 16732565, 362583685, 14 >>,
    << 17034319, 248466915, 14 >>, << 17329325, 733995148, 14 >>,
    << 1761804, 936543506, 13 >>, << 17900691, 559527124, 14 >>,
    << 18177602, 379414793, 14 >>, << 1844917, 506799657, 13 >>,
    << 18715869, 953564714, 14 >>, << 19150921, 533898074, 14 >>,
    << 19654895, 886439573, 14 >>, << 20141755, 25831992, 14 >>,
    << 2061404, 862741362, 13 >>, << 21072419, 738558636, 14 >>,
    << 21518208, 554701212, 14 >>, << 21952146, 542097762, 14 >>,
    << 22375061, 196813897, 14 >>, << 22787642, 551572122, 14 >>,
    << 23190572, 13604708, 14 >>, << 2358446, 551234182, 13 >>,
    << 23969838, 617873333, 14 >>, << 2434705, 437011741, 13 >>,
    << 24716989, 886510626, 14 >>, << 25079526, 125436902, 14 >>,
    << 25435313, 489067892, 14 >>, << 26001981, 786784313, 14 >> >>

FAST_LUT ==
    [i \in 1..Len(FAST_LUT_LITERALS) |->
        Lit(FAST_LUT_LITERALS[i][1], FAST_LUT_LITERALS[i][2],
            FAST_LUT_LITERALS[i][3])] \o << >>

\* expand_u8 reading the table from its other end.
expand_u8_reversed(e) == U8_TO_LINEAR_LUT[U8_MAX - e]

expand_u8(e) == U8_TO_LINEAR_LUT[e]

\* FastIndex shifting by one bit more.
FastIndexHalved(s) == (to_bits(s) - FAST_BITS_OFFSET) \div (2 ^ (FAST_SHIFT + 1))

\* The index into FAST_LUT of the cell left of s.
FastIndex(s) == (to_bits(s) - FAST_BITS_OFFSET) \div (2 ^ FAST_SHIFT)

\* The x coordinate of the left edge of cell i.
FastEdge(i) == from_bits(FAST_BITS_OFFSET + i * (2 ^ FAST_SHIFT))

\* FastInterpolate measuring ox from the right edge of the cell.
FastInterpolateFromRight(s) ==
    LET lft_x == FastIndex(s)
        rht_x == lft_x + 1
        lft == FAST_LUT[lft_x + 1]
        rht == FAST_LUT[rht_x + 1]
        dx == FSub(FastEdge(rht_x), FastEdge(lft_x))
        ox == FSub(s, FastEdge(rht_x))
    IN AsUInt(FAdd(lft, FDiv(FMul(FSub(rht, lft), ox), dx)), 255)

\* FastInterpolate with the operands of ox swapped.
FastInterpolateSwapped(s) ==
    LET lft_x == FastIndex(s)
        rht_x == lft_x + 1
        lft == FAST_LUT[lft_x + 1]
        rht == FAST_LUT[rht_x + 1]
        dx == FSub(FastEdge(rht_x), FastEdge(lft_x))
        ox == FSub(FastEdge(lft_x), s)
    IN AsUInt(FAdd(lft, FDiv(FMul(FSub(rht, lft), ox), dx)), 255)

\* The interpolation branch of compress_u8.
FastInterpolate(s) ==
    LET lft_x == FastIndex(s)
        rht_x == lft_x + 1
        lft == FAST_LUT[lft_x + 1]
        rht == FAST_LUT[rht_x + 1]
        dx == FSub(FastEdge(rht_x), FastEdge(lft_x))
        ox == FSub(s, FastEdge(lft_x))
    IN AsUInt(FAdd(lft, FDiv(FMul(FSub(rht, lft), ox), dx)), 255)

\* Which piece compress_u8 takes for s.
compress_u8_branch(s) ==
    IF ~FGt(s, FAST_START_AT) THEN "linear"
    ELSE IF FLt(s, FAST_START_255_AT) THEN "lut"
    ELSE "255"

\* const D: f32 = 12.92 * 255.0 of compress_u8.
COMPRESS_U8_D == FMul(F_12_92, F_255)

compress_u8(s) ==
    IF compress_u8_branch(s) = "linear"
    THEN AsUInt(FusedMulAdd(COMPRESS_U8_D, f32_max(s, F_0_0), F_0_5), 255)
    ELSE IF compress_u8_branch(s) = "lut"
    THEN FastInterpolate(s)
    ELSE 255

\* compress_u8_precise_branch with the comparison `s <= S_0`, which is
\* false of NaN.
compress_u8_precise_branch_le(s) == IF FLe(s, S_0) THEN "linear" ELSE "power"

\* Which piece compress_u8_precise takes for s.
compress_u8_precise_branch(s) == IF ~FGt(s, S_0) THEN "linear" ELSE "power"

\* The powf call of compress_u8_precise: s.min(1.0).powf(5.0 / 12.0).  The
\* linear piece makes none.
compress_u8_precise_powf(s) ==
    IF compress_u8_precise_branch(s) = "power"
    THEN powf(f32_min(s, F_1_0), Y_5_12)
    ELSE {F_0_0}

\* The constants of compress_u8_precise: D of the linear piece, A and D of
\* the power piece.
PRECISE_LIN_D == FMul(F_12_92, F_255)
PRECISE_A == FMul(F_0_055, F_255)
PRECISE_D == FMul(F_1_055, F_255)

\* compress_u8_precise without the 0.5 that rounds.
compress_u8_precise_truncating(fma, s, pw) ==
    AsUInt(IF compress_u8_precise_branch(s) = "linear"
           THEN mul_add(fma, f32_max(s, F_0_0), PRECISE_LIN_D, F_0_0)
           ELSE mul_add(fma, PRECISE_D, pw, FNeg(PRECISE_A)),
           255)

\* compress_u8_precise(s), with pw the value its powf call returns.
compress_u8_precise(fma, s, pw) ==
    AsUInt(IF compress_u8_precise_branch(s) = "linear"
           THEN mul_add(fma, f32_max(s, F_0_0), PRECISE_LIN_D, F_0_5)
           ELSE mul_add(fma, PRECISE_D, pw, FAdd(FNeg(PRECISE_A), F_0_5)),
           255)

\* `a + b` in an unsigned type of largest value top, as a release build
\* evaluates it.
WrappingAdd(a, b, top) == (a + b) % (top + 1)

\* `a * b` in an unsigned type of largest value top, likewise.
WrappingMul(a, b, top) == (a * b) % (top + 1)

\* `a - b` in an unsigned type of largest value top, likewise.
WrappingSub(a, b, top) == (a - b) % (top + 1)

\* Rec709Consts with RANGE left out of the D of the linear piece.
Rec709ConstsNoRange(top, low, high) ==
    LET range == FromInt(high - low)
    IN [top |-> top, low |-> low, high |-> high,
        RANGE |-> range,
        THRESHOLD |-> WrappingAdd(AsUInt(FMul(FMul(F_4_5, F_0_018), range), top),
                                  low, top),
        LIN_D |-> F_4_5,
        A |-> FMul(F_0_099, range),
        D |-> FMul(F_1_099, range)]

\* The constants of one use of compress_rec709_impl! and expand_rec709_impl!
\* for a type of largest value top: RANGE, THRESHOLD, D of the linear piece,
\* A and D of the power piece.
Rec709Consts(top, low, high) ==
    LET range == FromInt(high - low)
    IN [top |-> top, low |-> low, high |-> high,
        RANGE |-> range,
        THRESHOLD |-> WrappingAdd(AsUInt(FMul(FMul(F_4_5, F_0_018), range), top),
                                  low, top),
        LIN_D |-> FMul(F_4_5, range),
        A |-> FMul(F_0_099, range),
        D |-> FMul(F_1_099, range)]

\* (u8, 16, 235) and (u16, 64, 940)
REC709_8BIT == Rec709Consts(U8_MAX, 16, 235)
REC709_10BIT == Rec709Consts(U16_MAX, 64, 940)

\* Which piece compress_rec709_impl takes for s.
compress_rec709_branch(s) == IF ~FGt(s, F_0_018) THEN "linear" ELSE "power"

\* compress_rec709_powf without the `.min(1.0)`.
compress_rec709_powf_unclamped(s) ==
    IF compress_rec709_branch(s) = "power" THEN powf(s, Y_1_2_2) ELSE {F_0_0}

\* The powf call of compress_rec709_impl: $s.min(1.0).powf(1.0 / 2.2).
compress_rec709_powf(s) ==
    IF compress_rec709_branch(s) = "power"
    THEN powf(f32_min(s, F_1_0), Y_1_2_2)
    ELSE {F_0_0}

\* compress_rec709_impl without the 0.5 that rounds.
compress_rec709_impl_truncating(fma, s, k, pw) ==
    WrappingAdd(
        AsUInt(IF compress_rec709_branch(s) = "linear"
               THEN mul_add(fma, f32_max(s, F_0_0), k.LIN_D, F_0_0)
               ELSE mul_add(fma, k.D, pw, FNeg(k.A)),
               k.top),
        k.low, k.top)

\* compress_rec709_impl adding A where it subtracts it.
compress_rec709_impl_plus_A(fma, s, k, pw) ==
    WrappingAdd(
        AsUInt(IF compress_rec709_branch(s) = "linear"
               THEN mul_add(fma, f32_max(s, F_0_0), k.LIN_D, F_0_5)
               ELSE mul_add(fma, k.D, pw, FAdd(k.A, F_0_5)),
               k.top),
        k.low, k.top)

\* compress_rec709_impl!(s, t, low, high) with the constants k, and pw the
\* value its powf call returns.
compress_rec709_impl(fma, s, k, pw) ==
    WrappingAdd(
        AsUInt(IF compress_rec709_branch(s) = "linear"
               THEN mul_add(fma, f32_max(s, F_0_0), k.LIN_D, F_0_5)
               ELSE mul_add(fma, k.D, pw, FAdd(FNeg(k.A), F_0_5)),
               k.top),
        k.low, k.top)

\* expand_rec709_branch without the test `$e <= $low`.
expand_rec709_branch_unclamped(e, k) ==
    IF e <= k.THRESHOLD THEN "linear"
    ELSE IF e < k.high THEN "power"
    ELSE "one"

\* expand_rec709_branch with the code THRESHOLD in the power piece.
expand_rec709_branch_below(e, k) ==
    IF e <= k.low THEN "zero"
    ELSE IF e < k.THRESHOLD THEN "linear"
    ELSE IF e < k.high THEN "power"
    ELSE "one"

\* Which piece expand_rec709_impl takes for the code e.
expand_rec709_branch(e, k) ==
    IF e <= k.low THEN "zero"
    ELSE IF e <= k.THRESHOLD THEN "linear"
    ELSE IF e < k.high THEN "power"
    ELSE "one"

\* The operands of the subtraction $e - $low of expand_rec709_impl, which
\* the two middle pieces evaluate.
expand_rec709_sub(e, k) ==
    IF expand_rec709_branch(e, k) \in {"linear", "power"}
    THEN << e, k.low >>
    ELSE << >>

\* The argument of the powf call of expand_rec709_impl.
expand_rec709_base(e, k) ==
    FDiv(FAdd(FromInt(WrappingSub(e, k.low, k.top)), k.A), k.D)

\* The powf call of expand_rec709_impl.
expand_rec709_powf(e, k) ==
    IF expand_rec709_branch(e, k) = "power"
    THEN powf(expand_rec709_base(e, k), Y_2_2)
    ELSE {F_0_0}

\* expand_rec709_impl!(e, t, low, high) with the constants k, and pw the
\* value its powf call returns.
expand_rec709_impl(e, k, pw) ==
    IF expand_rec709_branch(e, k) = "zero" THEN F_0_0
    ELSE IF expand_rec709_branch(e, k) = "linear"
    THEN FDiv(FromInt(WrappingSub(e, k.low, k.top)), k.LIN_D)
    ELSE IF expand_rec709_branch(e, k) = "power" THEN pw
    ELSE F_1_0

expand_rec709_8bit(e, pw) == expand_rec709_impl(e, REC709_8BIT, pw)

compress_rec709_8bit(fma, s, pw) == compress_rec709_impl(fma, s, REC709_8BIT, pw)

expand_rec709_10bit(e, pw) == expand_rec709_impl(e, REC709_10BIT, pw)

compress_rec709_10bit(fma, s, pw) == compress_rec709_impl(fma, s, REC709_10BIT, pw)

\* Which piece expand_normalised takes for e.
expand_normalised_branch(e) == IF ~FGt(e, E_0) THEN "linear" ELSE "power"

\* The powf call of expand_normalised.
expand_normalised_powf(e) ==
    IF expand_normalised_branch(e) = "power"
    THEN powf(FDiv(FAdd(e, F_0_055), F_1_055), Y_2_4)
    ELSE {F_0_0}

\* expand_normalised(e), with pw the value its powf call returns.
expand_normalised(e, pw) ==
    IF expand_normalised_branch(e) = "linear" THEN FDiv(e, F_12_92) ELSE pw

\* compress_normalised_branch with the comparison `s <= S_0`, which is
\* false of NaN.
compress_normalised_branch_le(s) == IF FLe(s, S_0) THEN "linear" ELSE "power"

\* Which piece compress_normalised takes for s.
compress_normalised_branch(s) == IF ~FGt(s, S_0) THEN "linear" ELSE "power"

\* The powf call of compress_normalised.
compress_normalised_powf(s) ==
    IF compress_normalised_branch(s) = "power" THEN powf(s, Y_1_2_4) ELSE {F_0_0}

\* compress_normalised clamping its argument to [0, 1] first.
compress_normalised_clamping(fma, s, pw) ==
    IF compress_normalised_branch(s) = "linear"
    THEN FMul(F_12_92, f32_max(s, F_0_0))
    ELSE mul_add(fma, F_1_055, IF FGt(s, F_1_0) THEN F_1_0 ELSE pw, FNeg(F_0_055))

\* compress_normalised(s), with pw the value its powf call returns.
compress_normalised(fma, s, pw) ==
    IF compress_normalised_branch(s) = "linear"
    THEN FMul(F_12_92, s)
    ELSE mul_add(fma, F_1_055, pw, FNeg(F_0_055))

----------------------------------------------------------------------------
(* src/lib.rs arr_map and the three-component wrappers of src/gamma.rs     *)

\* arr_map(arr, f), the function f given by its values on the channels.
arr_map(arr, f) == << f[arr[1]], f[arr[2]], f[arr[3]] >>

\* The channels of a colour.
Channels(arr) == {arr[1], arr[2], arr[3]}

linear_from_u8(encoded) ==
    arr_map(encoded, [e \in Channels(encoded) |-> expand_u8(e)])

\* u8_from_linear with the first two channels exchanged.
u8_from_linear_swapped(linear) ==
    << compress_u8(linear[2]), compress_u8(linear[1]), compress_u8(linear[3]) >>

u8_from_linear(linear) ==
    arr_map(linear, [s \in Channels(linear) |-> compress_u8(s)])

\* A channel of the normalised wrappers is the pair of the component and
\* of the value the powf call of that channel returns.
WithPowf(arr, pws) == << << arr[1], pws[1] >>, << arr[2], pws[2] >>, << arr[3], pws[3] >> >>

linear_from_normalised(normalised, pws) ==
    arr_map(WithPowf(normalised, pws),
            [c \in Channels(WithPowf(normalised, pws)) |->
                 expand_normalised(c[1], c[2])])

normalised_from_linear(fma, linear, pws) ==
    arr_map(WithPowf(linear, pws),
            [c \in Channels(WithPowf(linear, pws)) |->
                 compress_normalised(fma, c[1], c[2])])

----------------------------------------------------------------------------
(* src/rec709.rs                                                           *)

\* Ord::clamp of an integer.
clamp(v, lo, hi) == IF v < lo THEN lo ELSE IF v > hi THEN hi ELSE v

\* f32::clamp: a NaN stays NaN.
f32_clamp(a, lo, hi) == IF FLt(a, lo) THEN lo ELSE IF FGt(a, hi) THEN hi ELSE a

\* decode_rec709_8bit without the clamp.
decode_rec709_8bit_unclamped(value) ==
    FDiv(FromInt(WrappingSub(value, 16, U8_MAX)), FromInt(235 - 16))

decode_rec709_8bit(value) ==
    FDiv(FromInt(WrappingSub(clamp(value, 16, 235), 16, U8_MAX)), FromInt(235 - 16))

decode_rec709_10bit(value) ==
    FDiv(FromInt(WrappingSub(clamp(value, 64, 940), 64, U16_MAX)), FromInt(940 - 64))

\* encode_rec709_8bit without the 0.5 that rounds.
encode_rec709_8bit_truncating(value) ==
    AsUInt(FusedMulAdd(f32_clamp(value, F_0_0, F_1_0), FromInt(235 - 16),
                       FromInt(16)),
           U8_MAX)

encode_rec709_8bit(value) ==
    AsUInt(FusedMulAdd(f32_clamp(value, F_0_0, F_1_0), FromInt(235 - 16),
                       Lit(0, 165, 1)),
           U8_MAX)

encode_rec709_10bit(value) ==
    AsUInt(FusedMulAdd(f32_clamp(value, F_0_0, F_1_0), FromInt(940 - 64),
                       Lit(0, 645, 1)),
           U16_MAX)

----------------------------------------------------------------------------
(* src/maths.rs: the dot products, and src/xyz.rs                          *)

dot_product_fallback(fma, a, b) ==
    mul_add(fma, a[3], b[3], mul_add(fma, a[2], b[2], FMul(a[1], b[1])))

\* dot_product_sse with 1.0 in the padding lane.
dot_product_sse_padded(a, b) ==
    FAdd(FAdd(FMul(F_1_0, F_1_0), FMul(a[3], b[3])),
         FAdd(FMul(a[2], b[2]), FMul(a[1], b[1])))

\* sse::dot_product_sse.  m128_from_array puts 0.0, arr[2], arr[1], arr[0]
\* in the lanes 0..3; after the lanewise product v the first shuffle and
\* addition leave v0 + v1 in lane 0 and v2 + v3 in lane 2, and movehl and
\* add_ss add the two.
dot_product_sse(a, b) ==
    FAdd(FAdd(FMul(F_0_0, F_0_0), FMul(a[3], b[3])),
         FAdd(FMul(a[2], b[2]), FMul(a[1], b[1])))

\* sse::dot_product_sse4_1: DPPS with the mask 0b1111_0001 multiplies the
\* four lanes, adds lane 0 to lane 1 and lane 2 to lane 3, and adds the two
\* sums, each operation rounded.
dot_product_sse4_1(a, b) ==
    FAdd(FAdd(FMul(F_0_0, F_0_0), FMul(a[3], b[3])),
         FAdd(FMul(a[2], b[2]), FMul(a[1], b[1])))

\* The strategies matrix_product selects from.
Strategies == {"fallback", "sse", "sse4.1"}

\* crate::maths::dot_product as xyz.rs calls it: the dot product of the
\* strategy st that maths.rs selects by has_sse() and has_sse4_1().
dot_product(st, fma, a, b) ==
    IF st = "sse4.1" THEN dot_product_sse4_1(a, b)
    ELSE IF st = "sse" THEN dot_product_sse(a, b)
    ELSE dot_product_fallback(fma, a, b)

matrix_product(st, fma, matrix, column) ==
    << dot_product(st, fma, matrix[1], column),
       dot_product(st, fma, matrix[2], column),
       dot_product(st, fma, matrix[3], column) >>

\* sse::has_sse and sse::has_sse4_1 on the CPU c: whether the feature is
\* enabled in the build or detected when the call is made.
has_sse(c) == c.sse

has_sse4_1(c) == c.sse4_1

\* The dot products that matrix_product of maths.rs passes as $dot.
Dots == {"fallback", "sse", "sse4.1"}

\* $dot(a, b) of matrix_product_body.
apply_dot(dot, fma, a, b) ==
    IF dot = "sse4.1" THEN dot_product_sse4_1(a, b)
    ELSE IF dot = "sse" THEN dot_product_sse(a, b)
    ELSE dot_product_fallback(fma, a, b)

\* matrix_product_body with the columns of the matrix for its rows.
matrix_product_body_columns(dot, fma, matrix, column) ==
    << apply_dot(dot, fma, << matrix[1][1], matrix[2][1], matrix[3][1] >>, column),
       apply_dot(dot, fma, << matrix[1][2], matrix[2][2], matrix[3][2] >>, column),
       apply_dot(dot, fma, << matrix[1][3], matrix[2][3], matrix[3][3] >>, column) >>

matrix_product_body(dot, fma, matrix, column) ==
    << apply_dot(dot, fma, matrix[1], column),
       apply_dot(dot, fma, matrix[2], column),
       apply_dot(dot, fma, matrix[3], column) >>

\* matrix_product_dot that does not ask has_sse4_1.
matrix_product_dot_always_sse4_1(probes) ==
    IF Len(probes) = 0 \/ ~probes[1] THEN "fallback" ELSE "sse4.1"

\* The $dot of the branch of matrix_product of maths.rs that a call takes
\* after the probes returned as the sequence of booleans probes tells: no
\* probe is made where the target is not x86, has_sse4_1 is asked after
\* has_sse returned true.
matrix_product_dot(probes) ==
    IF Len(probes) = 0 \/ ~probes[1] THEN "fallback"
    ELSE IF probes[2] THEN "sse4.1"
    ELSE "sse"

\* The probes a call of matrix_product of maths.rs makes on the CPU c.
matrix_product_probes(c) ==
    IF ~c.x86 THEN << >>
    ELSE IF ~has_sse(c) THEN << has_sse(c) >>
    ELSE << has_sse(c), has_sse4_1(c) >>

\* matrix_product of maths.rs.
maths_matrix_product(c, fma, matrix, column) ==
    matrix_product_body(matrix_product_dot(matrix_product_probes(c)),
                        fma, matrix, column)

D65_x_NUM == 312713
D65_y_NUM == 329016
D65_DENOM == 1000000

\* A subtraction of u32 in a constant expression: where it would underflow
\* the constant has no value.
NoU32 == 0 - 1
u32_sub(a, b) == IF a < b THEN NoU32 ELSE a - b

D65_xyY ==
    << FDiv(FromInt(D65_x_NUM), FromInt(D65_DENOM)),
       FDiv(FromInt(D65_y_NUM), FromInt(D65_DENOM)),
       F_1_0 >>

\* D65_XYZ dividing by D65_DENOM.
D65_XYZ_by_DENOM ==
    << FDiv(FromInt(D65_x_NUM), FromInt(D65_DENOM)),
       F_1_0,
       FDiv(FromInt(u32_sub(u32_sub(D65_DENOM, D65_x_NUM), D65_y_NUM)),
            FromInt(D65_DENOM)) >>

D65_XYZ ==
    << FDiv(FromInt(D65_x_NUM), FromInt(D65_y_NUM)),
       F_1_0,
       FDiv(FromInt(u32_sub(u32_sub(D65_DENOM, D65_x_NUM), D65_y_NUM)),
            FromInt(D65_y_NUM)) >>

XYZ_FROM_SRGB_MATRIX ==
    << << Lit(4124108, 464885388, 16), Lit(3575845, 678529519, 16),
          Lit(18045380, 393360833, 17) >>,
       << Lit(21264934, 272065283, 17), Lit(7151691, 357059038, 16),
          Lit(7218152, 157344333, 17) >>,
       << Lit(19331758, 429150258, 18), Lit(11919485, 595098397, 17),
          Lit(9503900, 340503373, 16) >> >>

SRGB_FROM_XYZ_MATRIX ==
    << << Lit(3240812, 398895283, 15), FNeg(Lit(15373084, 456298136, 16)),
          FNeg(Lit(4985865, 229069666, 16)) >>,
       << FNeg(Lit(9692430, 170086407, 16)), Lit(18759663, 29085742, 16),
          Lit(4155503, 85668564, 17) >>,
       << Lit(55638398, 436112804, 18), FNeg(Lit(20400746, 93241362, 17)),
          Lit(10571295, 702861434, 16) >> >>

\* xyz_from_linear multiplying by the matrix of the other direction.
xyz_from_linear_inverse(st, fma, linear) ==
    matrix_product(st, fma, SRGB_FROM_XYZ_MATRIX, linear)

xyz_from_linear(st, fma, linear) ==
    matrix_product(st, fma, XYZ_FROM_SRGB_MATRIX, linear)

\* linear_from_xyz multiplying by the matrix of the other direction.
linear_from_xyz_forward(st, fma, xyz) ==
    matrix_product(st, fma, XYZ_FROM_SRGB_MATRIX, xyz)

linear_from_xyz(st, fma, xyz) ==
    matrix_product(st, fma, SRGB_FROM_XYZ_MATRIX, xyz)

\* f32::abs_diff_eq of the approx crate, which Arr::abs_diff_eq applies to
\* each component.
abs_diff_eq(a, b, epsilon) ==
    FLe(IF FGt(a, b) THEN FSub(a, b) ELSE FSub(b, a), epsilon)

\* f32::EPSILON, the default epsilon of f32::ulps_eq.
F32_EPSILON == MkFin(0, 1, 1 - MantBits)

\* f32::ulps_eq of the approx crate: values within epsilon of each other
\* are equal; others are if they have one sign and their bit patterns are
\* no more than max_ulps apart.
ulps_eq(a, b, epsilon, max_ulps) ==
    \/ abs_diff_eq(a, b, epsilon)
    \/ /\ a.sign = b.sign
       /\ to_bits(a) - to_bits(b) <= max_ulps
       /\ to_bits(b) - to_bits(a) <= max_ulps

\* want and got of test_d65.
TestD65Want ==
    << FDiv(D65_xyY[1], D65_xyY[2]),
       F_1_0,
       FDiv(FSub(FSub(F_1_0, D65_xyY[1]), D65_xyY[2]), D65_xyY[2]) >>

----------------------------------------------------------------------------
(* The crate as a state machine.  Its functions are pure: a state is one   *)
(* pending call with its argument, the build target, and the values the    *)
(* calls made so far have returned.                                        *)
(*   pc          "code": an integer code waits to be expanded;             *)
(*               "encoded": an encoded float waits to be expanded;         *)
(*               "linear": a linear value waits to be compressed; "done"   *)
(*   func        the pair of functions under call                          *)
(*   target_fma  cfg!(target_feature = "fma") of the build                 *)
(*   code, enc   the integer or float argument of the expansion            *)
(*   lin         the linear value: the expansion's result, or the          *)
(*               argument of the compression                               *)
(*   out, outf   the integer or float result of the compression            *)
(*   branch      the piece the last call took                              *)
(*   sub         the operands of the last call's integer subtraction       *)
(*   lin2, out2, branch2   the same for the 10-bit call made beside the    *)
(*               8-bit one                                                 *)
(*   prev, adjacent   the result at the previous argument of a walk over   *)
(*               the arguments, and whether it was the float just below    *)
(*   strategy    the dot product matrix_product selects on this CPU        *)
(*   no_fma      whether the build enables the crate's feature no-fma      *)
(*   cpu         the features the SSE probes find                          *)
(*   threads     the calls of the threads that run side by side            *)
(*   bisect      lo, hi, mid and the turn of calc_gamma_threshold's loop,  *)
(*               and where its f64 comparison can go either way           *)

\* How many floats on either side of a point of interest a walk visits.
WalkWindow == 8

VARIABLES pc, func, target_fma, code, enc, lin, out, outf, branch, sub,
          lin2, out2, branch2, prev, adjacent, strategy,
          no_fma, cpu, threads, bisect

\* What the calls of one function after another leave alone.
rest == << no_fma, cpu, threads, bisect >>

vars == << pc, func, target_fma, code, enc, lin, out, outf, branch, sub,
           lin2, out2, branch2, prev, adjacent, strategy, rest >>

\* The features of a CPU that a probe reads; a target other than x86 has
\* neither probe, and a CPU with SSE 4.1 has SSE.
Cpus ==
    {c \in [x86 : BOOLEAN, sse : BOOLEAN, sse4_1 : BOOLEAN] :
         /\ ~c.x86 => (~c.sse /\ ~c.sse4_1)
         /\ c.sse4_1 => c.sse}

\* A build without the feature no-fma, on a CPU without SSE, with no
\* thread and no bisection under way.
RestUnset ==
    /\ no_fma = FALSE
    /\ cpu = [x86 |-> FALSE, sse |-> FALSE, sse4_1 |-> FALSE]
    /\ threads = << >>
    /\ bisect = << >>

\* What no call has set yet.
Unset ==
    /\ enc = F_0_0 /\ lin = F_0_0 /\ out = 0 /\ outf = F_0_0
    /\ branch = "" /\ sub = << >>
    /\ lin2 = F_0_0 /\ out2 = 0 /\ branch2 = ""
    /\ prev = 0 /\ adjacent = FALSE /\ strategy = "fallback" /\ RestUnset

\* let lin = expand_u8(code)
ExpandU8 ==
    /\ pc = "code" /\ func \in {"u8", "u8_precise"}
    /\ lin' = expand_u8(code)
    /\ branch' = "table"
    /\ pc' = "linear"
    /\ UNCHANGED << func, target_fma, code, enc, out, outf, sub,
                    lin2, out2, branch2, prev, adjacent, strategy, rest >>

\* let out = compress_u8(lin)
CompressU8 ==
    /\ pc = "linear" /\ func = "u8"
    /\ out' = compress_u8(lin)
    /\ branch' = compress_u8_branch(lin)
    /\ pc' = "done"
    /\ UNCHANGED << func, target_fma, code, enc, lin, outf, sub,
                    lin2, out2, branch2, prev, adjacent, strategy, rest >>

\* let out = compress_u8_precise(lin)
CompressU8Precise ==
    /\ pc = "linear" /\ func = "u8_precise"
    /\ \E pw \in compress_u8_precise_powf(lin) :
           out' = compress_u8_precise(target_fma, lin, pw)
    /\ branch' = compress_u8_precise_branch(lin)
    /\ pc' = "done"
    /\ UNCHANGED << func, target_fma, code, enc, lin, outf, sub,
                    lin2, out2, branch2, prev, adjacent, strategy, rest >>

\* let lin = expand_rec709_8bit(code)
ExpandRec709_8bit ==
    /\ pc = "code" /\ func = "rec709_8bit"
    /\ \E pw \in expand_rec709_powf(code, REC709_8BIT) :
           lin' = expand_rec709_8bit(code, pw)
    /\ branch' = expand_rec709_branch(code, REC709_8BIT)
    /\ sub' = expand_rec709_sub(code, REC709_8BIT)
    /\ pc' = "linear"
    /\ UNCHANGED << func, target_fma, code, enc, out, outf,
                    lin2, out2, branch2, prev, adjacent, strategy, rest >>

\* let lin = expand_rec709_10bit(code)
ExpandRec709_10bit ==
    /\ pc = "code" /\ func = "rec709_10bit"
    /\ \E pw \in expand_rec709_powf(code, REC709_10BIT) :
           lin' = expand_rec709_10bit(code, pw)
    /\ branch' = expand_rec709_branch(code, REC709_10BIT)
    /\ sub' = expand_rec709_sub(code, REC709_10BIT)
    /\ pc' = "linear"
    /\ UNCHANGED << func, target_fma, code, enc, out, outf,
                    lin2, out2, branch2, prev, adjacent, strategy, rest >>

\* let out = compress_rec709_8bit(lin)
CompressRec709_8bit ==
    /\ pc = "linear" /\ func = "rec709_8bit"
    /\ \E pw \in compress_rec709_powf(lin) :
           out' = compress_rec709_8bit(target_fma, lin, pw)
    /\ branch' = compress_rec709_branch(lin)
    /\ pc' = "done"
    /\ UNCHANGED << func, target_fma, code, enc, lin, outf, sub,
                    lin2, out2, branch2, prev, adjacent, strategy, rest >>

\* let out = compress_rec709_10bit(lin)
CompressRec709_10bit ==
    /\ pc = "linear" /\ func = "rec709_10bit"
    /\ \E pw \in compress_rec709_powf(lin) :
           out' = compress_rec709_10bit(target_fma, lin, pw)
    /\ branch' = compress_rec709_branch(lin)
    /\ pc' = "done"
    /\ UNCHANGED << func, target_fma, code, enc, lin, outf, sub,
                    lin2, out2, branch2, prev, adjacent, strategy, rest >>

\* test_rec709_scaling, first half: expand_rec709_8bit(v) beside
\* expand_rec709_10bit(v as u16 * 4).  libm's powf is a function: two calls
\* with the same argument return the same value.
ExpandRec709Scaling ==
    /\ pc = "code" /\ func = "rec709_scaling"
    /\ \E pw \in expand_rec709_powf(code, REC709_8BIT),
          pw2 \in expand_rec709_powf(WrappingMul(code, 4, U16_MAX), REC709_10BIT) :
           /\ (expand_rec709_base(code, REC709_8BIT) =
               expand_rec709_base(WrappingMul(code, 4, U16_MAX), REC709_10BIT))
              => pw = pw2
           /\ lin' = expand_rec709_8bit(code, pw)
           /\ lin2' = expand_rec709_10bit(WrappingMul(code, 4, U16_MAX), pw2)
    /\ branch' = expand_rec709_branch(code, REC709_8BIT)
    /\ branch2' = expand_rec709_branch(WrappingMul(code, 4, U16_MAX), REC709_10BIT)
    /\ pc' = "linear"
    /\ UNCHANGED << func, target_fma, code, enc, out, outf, sub,
                    out2, prev, adjacent, strategy, rest >>

\* test_rec709_scaling, second half: compress_rec709_8bit(lin) beside
\* compress_rec709_10bit(lin); both make the same powf call.
CompressRec709Scaling ==
    /\ pc = "linear" /\ func = "rec709_scaling"
    /\ \E pw \in compress_rec709_powf(lin) :
           /\ out' = compress_rec709_8bit(target_fma, lin, pw)
           /\ out2' = compress_rec709_10bit(target_fma, lin, pw)
    /\ pc' = "done"
    /\ UNCHANGED << func, target_fma, code, enc, lin, outf, branch, sub,
                    lin2, branch2, prev, adjacent, strategy, rest >>

\* let lin = expand_normalised(enc)
ExpandNormalised ==
    /\ pc = "encoded" /\ func = "normalised"
    /\ \E pw \in expand_normalised_powf(enc) : lin' = expand_normalised(enc, pw)
    /\ branch' = expand_normalised_branch(enc)
    /\ pc' = "linear"
    /\ UNCHANGED << func, target_fma, code, enc, out, outf, sub,
                    lin2, out2, branch2, prev, adjacent, strategy, rest >>

\* let outf = compress_normalised(lin)
CompressNormalised ==
    /\ pc = "linear" /\ func = "normalised"
    /\ \E pw \in compress_normalised_powf(lin) :
           outf' = compress_normalised(target_fma, lin, pw)
    /\ branch' = compress_normalised_branch(lin)
    /\ pc' = "done"
    /\ UNCHANGED << func, target_fma, code, enc, lin, out, sub,
                    lin2, out2, branch2, prev, adjacent, strategy, rest >>

\* value.next_after(std::f32::INFINITY) for a finite value >= 0.
next_after(a) == from_bits(to_bits(a) + 1)

\* The bit patterns of the arguments at which compress_u8 changes its
\* piece or its cell of FAST_LUT, and of the ends of the walk.
WalkPoints ==
    {to_bits(FAST_START_AT), to_bits(FAST_START_255_AT), to_bits(F_1_0),
     to_bits(F_0_0), to_bits(Lit(0, 1, 4))}
    \cup {FAST_BITS_OFFSET + i * (2 ^ FAST_SHIFT) : i \in 0..(Len(FAST_LUT) - 1)}

\* The walk visits the floats within WalkWindow of a point.
Visited(b) == \E p \in WalkPoints : p - WalkWindow <= b /\ b <= p + WalkWindow

\* The bit pattern the walk visits after b.
WalkAfter(b) ==
    IF Visited(b + 1) THEN b + 1
    ELSE CHOOSE c \in {p - WalkWindow : p \in WalkPoints} :
             /\ c > b
             /\ \A p \in WalkPoints : p - WalkWindow > b => c <= p - WalkWindow

\* test_compress_u8_increases, one turn of its loop: the next value is the
\* float after lin, or the first float of the next window.
WalkStep ==
    /\ pc = "walk" /\ FLt(lin, F_1_0)
    /\ lin' = from_bits(WalkAfter(to_bits(lin)))
    /\ adjacent' = (WalkAfter(to_bits(lin)) = to_bits(next_after(lin)))
    /\ prev' = out
    /\ out' = compress_u8(lin')
    /\ branch' = compress_u8_branch(lin')
    /\ UNCHANGED << pc, func, target_fma, code, enc, outf, sub, lin2, out2, branch2,
                    strategy, rest >>

\* let out = encode_rec709_8bit(lin); the function has one piece.
EncodeRec709_8bit ==
    /\ pc = "linear" /\ func \in {"encode_rec709_8bit", "remap_rec709_8bit"}
    /\ out' = encode_rec709_8bit(lin)
    /\ branch' = "linear"
    /\ pc' = "done"
    /\ UNCHANGED << func, target_fma, code, enc, lin, outf, sub,
                    lin2, out2, branch2, prev, adjacent, strategy, rest >>

\* let out = encode_rec709_10bit(lin)
EncodeRec709_10bit ==
    /\ pc = "linear" /\ func \in {"encode_rec709_10bit", "remap_rec709_10bit"}
    /\ out' = encode_rec709_10bit(lin)
    /\ branch' = "linear"
    /\ pc' = "done"
    /\ UNCHANGED << func, target_fma, code, enc, lin, outf, sub,
                    lin2, out2, branch2, prev, adjacent, strategy, rest >>

\* let lin = decode_rec709_8bit(code)
DecodeRec709_8bit ==
    /\ pc = "code" /\ func = "remap_rec709_8bit"
    /\ lin' = decode_rec709_8bit(code)
    /\ pc' = "linear"
    /\ UNCHANGED << func, target_fma, code, enc, out, outf, branch, sub,
                    lin2, out2, branch2, prev, adjacent, strategy, rest >>

\* let lin = decode_rec709_10bit(code)
DecodeRec709_10bit ==
    /\ pc = "code" /\ func = "remap_rec709_10bit"
    /\ lin' = decode_rec709_10bit(code)
    /\ pc' = "linear"
    /\ UNCHANGED << func, target_fma, code, enc, out, outf, branch, sub,
                    lin2, out2, branch2, prev, adjacent, strategy, rest >>

\* A walk up the codes of u8, one call of expand_u8 a step: lin2 keeps the
\* result at the code before.
ExpandU8Next ==
    /\ pc = "walk" /\ func = "expand_u8" /\ code < U8_MAX
    /\ code' = code + 1
    /\ lin2' = lin
    /\ lin' = expand_u8(code')
    /\ UNCHANGED << pc, func, target_fma, enc, out, outf, branch, sub,
                    out2, branch2, prev, adjacent, strategy, rest >>

\* The same walk with decode_rec709_8bit; sub keeps the operands of its
\* integer subtraction.
DecodeRec709_8bitNext ==
    /\ pc = "walk" /\ func = "decode_rec709_8bit" /\ code < U8_MAX
    /\ code' = code + 1
    /\ lin2' = lin
    /\ lin' = decode_rec709_8bit(code')
    /\ sub' = << clamp(code', 16, 235), 16 >>
    /\ UNCHANGED << pc, func, target_fma, enc, out, outf, branch,
                    out2, branch2, prev, adjacent, strategy, rest >>

\* The same walk up the codes of u16 with decode_rec709_10bit.
DecodeRec709_10bitNext ==
    /\ pc = "walk" /\ func = "decode_rec709_10bit" /\ code < U16_MAX
    /\ code' = code + 1
    /\ lin2' = lin
    /\ lin' = decode_rec709_10bit(code')
    /\ sub' = << clamp(code', 64, 940), 64 >>
    /\ UNCHANGED << pc, func, target_fma, enc, out, outf, branch,
                    out2, branch2, prev, adjacent, strategy, rest >>

\* let lin = linear_from_u8(code), code the three channels of a colour.
LinearFromU8 ==
    /\ pc = "call" /\ func = "linear_from_u8"
    /\ lin' = linear_from_u8(code)
    /\ pc' = "done"
    /\ UNCHANGED << func, target_fma, code, enc, out, outf, branch, sub,
                    lin2, out2, branch2, prev, adjacent, strategy, rest >>

\* let out = u8_from_linear(lin)
U8FromLinear ==
    /\ pc = "call" /\ func = "u8_from_linear"
    /\ out' = u8_from_linear(lin)
    /\ pc' = "done"
    /\ UNCHANGED << func, target_fma, code, enc, lin, outf, branch, sub,
                    lin2, out2, branch2, prev, adjacent, strategy, rest >>

\* let lin = linear_from_normalised(enc): one powf call a channel.
LinearFromNormalised ==
    /\ pc = "call" /\ func = "linear_from_normalised"
    /\ \E pws \in expand_normalised_powf(enc[1]) \X expand_normalised_powf(enc[2])
                      \X expand_normalised_powf(enc[3]) :
           lin' = linear_from_normalised(enc, pws)
    /\ pc' = "done"
    /\ UNCHANGED << func, target_fma, code, enc, out, outf, branch, sub,
                    lin2, out2, branch2, prev, adjacent, strategy, rest >>

\* let outf = normalised_from_linear(lin)
NormalisedFromLinear ==
    /\ pc = "call" /\ func = "normalised_from_linear"
    /\ \E pws \in compress_normalised_powf(lin[1]) \X compress_normalised_powf(lin[2])
                      \X compress_normalised_powf(lin[3]) :
           outf' = normalised_from_linear(target_fma, lin, pws)
    /\ pc' = "done"
    /\ UNCHANGED << func, target_fma, code, enc, lin, out, branch, sub,
                    lin2, out2, branch2, prev, adjacent, strategy, rest >>

\* let xyz = xyz_from_linear(src); test_reversible_conversion goes on to
\* linear_from_xyz, test_grey_chromaticity_error_linear measures xyz.
XyzFromLinear ==
    /\ pc = "rgb" /\ func \in {"reversible", "grey", "xyz_from_linear"}
    /\ outf' = xyz_from_linear(strategy, target_fma, lin)
    /\ pc' = IF func = "reversible" THEN "xyz" ELSE "done"
    /\ UNCHANGED << func, target_fma, code, enc, lin, out, branch, sub,
                    lin2, out2, branch2, prev, adjacent, strategy, rest >>

\* let dst = linear_from_xyz(xyz)
LinearFromXyz ==
    /\ pc = "xyz" /\ func \in {"reversible", "linear_from_xyz"}
    /\ lin2' = linear_from_xyz(strategy, target_fma, outf)
    /\ pc' = "done"
    /\ UNCHANGED << func, target_fma, code, enc, lin, out, outf, branch, sub,
                    out2, branch2, prev, adjacent, strategy, rest >>

\* One turn of the loop of test_d65: lin is w and outf is g of the
\* component the turn compares, code counts the components compared.
TestD65 ==
    /\ pc = "d65" /\ func = "d65" /\ code < 3
    /\ code' = code + 1
    /\ lin' = TestD65Want[code']
    /\ outf' = D65_XYZ[code']
    /\ UNCHANGED << pc, func, target_fma, enc, out, branch, sub,
                    lin2, out2, branch2, prev, adjacent, strategy, rest >>

\* test_round_trip_u8 and test_round_trip_u8_precise: every code 0..=255.
InitU8RoundTrip ==
    /\ pc = "code" /\ func \in {"u8", "u8_precise"}
    /\ target_fma \in BOOLEAN
    /\ code \in 0..U8_MAX
    /\ Unset

NextU8RoundTrip == ExpandU8 \/ CompressU8 \/ CompressU8Precise

SpecU8RoundTrip == InitU8RoundTrip /\ [][NextU8RoundTrip]_vars

\* test_round_trip_rec709_8bit, test_round_trip_rec709_10bit and
\* test_rec709_scaling: every nominal code.
InitRec709RoundTrip ==
    /\ pc = "code"
    /\ \/ func \in {"rec709_8bit", "rec709_scaling"} /\ code \in 16..235
       \/ func = "rec709_10bit" /\ code \in 64..940
    /\ target_fma \in BOOLEAN
    /\ Unset

NextRec709RoundTrip ==
    \/ ExpandRec709_8bit \/ CompressRec709_8bit
    \/ ExpandRec709_10bit \/ CompressRec709_10bit
    \/ ExpandRec709Scaling \/ CompressRec709Scaling

SpecRec709RoundTrip == InitRec709RoundTrip /\ [][NextRec709RoundTrip]_vars

\* test_compress_u8_increases, from 0.0.
InitWalk ==
    /\ pc = "walk" /\ func = "u8"
    /\ target_fma \in BOOLEAN
    /\ lin = F_0_0
    /\ out = compress_u8(F_0_0)
    /\ branch = compress_u8_branch(F_0_0)
    /\ code = 0 /\ enc = F_0_0 /\ outf = F_0_0 /\ sub = << >>
    /\ lin2 = F_0_0 /\ out2 = 0 /\ branch2 = ""
    /\ prev = 0 /\ adjacent = FALSE /\ strategy = "fallback" /\ RestUnset

SpecWalk == InitWalk /\ [][WalkStep]_vars

\* The arguments outside the nominal range, at its ends and at the
\* thresholds.
EdgeMagnitudes ==
    {F_0_0, F_1_0, MkFin(0, 1, EMIN), MkFin(0, TwoP24 - 1, EMAX),
     next_after(F_1_0), MkFin(0, TwoP24 - 1, 0 - MantBits),
     F_0_5, FromInt(2), FromInt(3), F_255, Lit(0, 15, 1), Lit(0, 1, 4),
     S_0, next_after(S_0), E_0, next_after(E_0), F_0_018, next_after(F_0_018),
     FAST_START_AT, next_after(FAST_START_AT), FAST_START_255_AT}

EdgeValues ==
    {NaN, Inf(0), Inf(1)} \cup EdgeMagnitudes \cup {FNeg(a) : a \in EdgeMagnitudes}

\* One call of a compressor, or of expand_normalised and then
\* compress_normalised, on an argument of EdgeValues.
InitEdge ==
    /\ target_fma \in BOOLEAN
    /\ \/ /\ pc = "linear"
          /\ func \in {"u8", "u8_precise", "rec709_8bit", "rec709_10bit", "normalised"}
          /\ lin \in EdgeValues /\ enc = F_0_0
       \/ /\ pc = "encoded" /\ func = "normalised"
          /\ enc \in EdgeValues /\ lin = F_0_0
    /\ code = 0 /\ out = 0 /\ outf = F_0_0 /\ branch = "" /\ sub = << >>
    /\ lin2 = F_0_0 /\ out2 = 0 /\ branch2 = ""
    /\ prev = 0 /\ adjacent = FALSE /\ strategy = "fallback" /\ RestUnset

NextEdge ==
    \/ CompressU8 \/ CompressU8Precise
    \/ CompressRec709_8bit \/ CompressRec709_10bit
    \/ ExpandNormalised \/ CompressNormalised

SpecEdge == InitEdge /\ [][NextEdge]_vars

\* One call of a Rec.709 expansion on any code of its argument's type.
InitRec709Expand ==
    /\ pc = "code"
    /\ \/ func = "rec709_8bit" /\ code \in 0..U8_MAX
       \/ func = "rec709_10bit" /\ code \in 0..U16_MAX
    /\ target_fma \in BOOLEAN
    /\ Unset

NextRec709Expand == ExpandRec709_8bit \/ ExpandRec709_10bit

SpecRec709Expand == InitRec709Expand /\ [][NextRec709Expand]_vars

\* One call of an encoder of rec709.rs on an argument of EdgeValues.
InitEncode ==
    /\ pc = "linear"
    /\ func \in {"encode_rec709_8bit", "encode_rec709_10bit"}
    /\ target_fma \in BOOLEAN
    /\ lin \in EdgeValues
    /\ code = 0 /\ enc = F_0_0 /\ out = 0 /\ outf = F_0_0
    /\ branch = "" /\ sub = << >>
    /\ lin2 = F_0_0 /\ out2 = 0 /\ branch2 = ""
    /\ prev = 0 /\ adjacent = FALSE /\ strategy = "fallback" /\ RestUnset

NextEncode == EncodeRec709_8bit \/ EncodeRec709_10bit

SpecEncode == InitEncode /\ [][NextEncode]_vars

\* A code of u8 or of u16 decoded and encoded again.  The functions of
\* rec709.rs do not read target_fma.
InitRemap ==
    /\ pc = "code"
    /\ \/ func = "remap_rec709_8bit" /\ code \in 0..U8_MAX
       \/ func = "remap_rec709_10bit" /\ code \in 0..U16_MAX
    /\ target_fma = FALSE
    /\ Unset

NextRemap ==
    \/ DecodeRec709_8bit \/ EncodeRec709_8bit
    \/ DecodeRec709_10bit \/ EncodeRec709_10bit

SpecRemap == InitRemap /\ [][NextRemap]_vars

\* The walks up the codes, from code 0.
InitCodeWalk ==
    /\ pc = "walk" /\ code = 0
    /\ target_fma \in BOOLEAN
    /\ \/ /\ func = "expand_u8"
          /\ lin = expand_u8(0) /\ sub = << >>
       \/ /\ func = "decode_rec709_8bit"
          /\ lin = decode_rec709_8bit(0) /\ sub = << clamp(0, 16, 235), 16 >>
       \/ /\ func = "decode_rec709_10bit"
          /\ lin = decode_rec709_10bit(0) /\ sub = << clamp(0, 64, 940), 64 >>
    /\ lin2 = lin
    /\ enc = F_0_0 /\ out = 0 /\ outf = F_0_0 /\ branch = ""
    /\ out2 = 0 /\ branch2 = "" /\ prev = 0 /\ adjacent = FALSE /\ strategy = "fallback" /\ RestUnset

NextCodeWalk == ExpandU8Next \/ DecodeRec709_8bitNext \/ DecodeRec709_10bitNext

SpecCodeWalk == InitCodeWalk /\ [][NextCodeWalk]_vars

\* The channels the colours of the wrappers are made of.
ChannelCodes == {0, 1, 128, 255}
ChannelValues == {F_0_0, F_0_5, F_1_0}

\* One call of a three-component wrapper on a colour.
InitWrappers ==
    /\ pc = "call"
    /\ target_fma \in BOOLEAN
    /\ \/ /\ func = "linear_from_u8"
          /\ code \in ChannelCodes \X ChannelCodes \X ChannelCodes
          /\ lin = << >> /\ enc = << >>
       \/ /\ func \in {"u8_from_linear", "normalised_from_linear"}
          /\ lin \in ChannelValues \X ChannelValues \X ChannelValues
          /\ code = << >> /\ enc = << >>
       \/ /\ func = "linear_from_normalised"
          /\ enc \in ChannelValues \X ChannelValues \X ChannelValues
          /\ code = << >> /\ lin = << >>
    /\ out = << >> /\ outf = << >>
    /\ branch = "" /\ sub = << >>
    /\ lin2 = F_0_0 /\ out2 = 0 /\ branch2 = ""
    /\ prev = 0 /\ adjacent = FALSE /\ strategy = "fallback" /\ RestUnset

NextWrappers ==
    LinearFromU8 \/ U8FromLinear \/ LinearFromNormalised \/ NormalisedFromLinear

SpecWrappers == InitWrappers /\ [][NextWrappers]_vars

\* The components (c & 15) as f32 / 15.0 of test_reversible_conversion.
GridComponents == {FDiv(FromInt(i), FromInt(15)) : i \in 0..15}

\* The greys [v, v, v], v = i as f32 / 255.0, of
\* test_grey_chromaticity_error_linear.
Greys == {<< FDiv(FromInt(i), F_255), FDiv(FromInt(i), F_255), FDiv(FromInt(i), F_255) >> :
              i \in 1..255}

\* The tests of xyz.rs and the grey test of lib.rs, on a CPU with any of
\* the dot products.  Only dot_product_fallback reads target_fma: the
\* fallback is taken with and without fma, the SSE products without.
InitXyz ==
    /\ strategy \in Strategies
    /\ target_fma \in (IF strategy = "fallback" THEN BOOLEAN ELSE {FALSE})
    /\ \/ /\ func = "reversible" /\ pc = "rgb"
          /\ lin \in GridComponents \X GridComponents \X GridComponents
       \/ /\ func = "grey" /\ pc = "rgb"
          /\ lin \in Greys
       \/ /\ func = "d65" /\ pc = "d65"
          /\ lin = F_0_0
    /\ code = 0 /\ enc = F_0_0 /\ out = 0 /\ outf = F_0_0
    /\ branch = "" /\ sub = << >>
    /\ lin2 = F_0_0 /\ out2 = 0 /\ branch2 = ""
    /\ prev = 0 /\ adjacent = FALSE /\ RestUnset

NextXyz == XyzFromLinear \/ LinearFromXyz \/ TestD65

SpecXyz == InitXyz /\ [][NextXyz]_vars

\* [x as f32, y as f32, z as f32]
F32s(ints) == << FromInt(ints[1]), FromInt(ints[2]), FromInt(ints[3]) >>

\* The operands of test_dot_product and testdot_product_sse, A and B, and
\* others with whole components.
DotComponentsA == {0 - 1, 1, 2, 3}
DotComponentsB == {0, 2, 20, 200}

\* The matrix and the column of test_matrix_product, and others.
TestMatrices ==
    { << F32s(<< 1, 2, 3 >>), F32s(<< 4, 5, 6 >>), F32s(<< 7, 8, 9 >>) >>,
      << F32s(<< 0, 0 - 1, 2 >>), F32s(<< 3, 0, 0 - 4 >>), F32s(<< 5, 6, 0 >>) >> }

ColumnComponents == {0, 1, 10, 100}

Triples(S) == {F32s(t) : t \in S \X S \X S}

UnitColumns == {F32s(<< 1, 0, 0 >>), F32s(<< 0, 1, 0 >>), F32s(<< 0, 0, 1 >>)}

\* assert_eq!(WANT, super::dot_product_fallback(&A, &B))
DotProductFallback ==
    /\ pc = "call" /\ func = "dot_product" /\ strategy = "fallback"
    /\ outf' = dot_product_fallback(target_fma, lin, enc)
    /\ pc' = "done"
    /\ UNCHANGED << func, target_fma, code, enc, lin, out, branch, sub,
                    lin2, out2, branch2, prev, adjacent, strategy, rest >>

\* assert_eq!(WANT, super::sse::dot_product_sse(&A, &B))
DotProductSse ==
    /\ pc = "call" /\ func = "dot_product" /\ strategy = "sse"
    /\ outf' = dot_product_sse(lin, enc)
    /\ pc' = "done"
    /\ UNCHANGED << func, target_fma, code, enc, lin, out, branch, sub,
                    lin2, out2, branch2, prev, adjacent, strategy, rest >>

\* assert_eq!(WANT, super::sse::dot_product_sse4_1(&A, &B))
DotProductSse4_1 ==
    /\ pc = "call" /\ func = "dot_product" /\ strategy = "sse4.1"
    /\ outf' = dot_product_sse4_1(lin, enc)
    /\ pc' = "done"
    /\ UNCHANGED << func, target_fma, code, enc, lin, out, branch, sub,
                    lin2, out2, branch2, prev, adjacent, strategy, rest >>

\* super::matrix_product(&matrix, column) of test_matrix_product: enc is
\* the matrix and lin the column; branch is the dot product the call used.
MathsMatrixProduct ==
    /\ pc = "call" /\ func = "matrix_product"
    /\ outf' = maths_matrix_product(cpu, target_fma, enc, lin)
    /\ branch' = matrix_product_dot(matrix_product_probes(cpu))
    /\ pc' = "done"
    /\ UNCHANGED << func, target_fma, code, enc, lin, out, sub,
                    lin2, out2, branch2, prev, adjacent, strategy, rest >>

\* The tests of maths.rs, on every CPU and with more operands, and
\* xyz_from_linear and linear_from_xyz on the columns of the unit matrix.
InitMaths ==
    /\ target_fma \in BOOLEAN
    /\ \/ /\ func = "dot_product" /\ pc = "call"
          /\ strategy \in Strategies
          /\ lin \in Triples(DotComponentsA) /\ enc \in Triples(DotComponentsB)
          /\ outf = F_0_0
          /\ cpu = [x86 |-> FALSE, sse |-> FALSE, sse4_1 |-> FALSE]
       \/ /\ func = "matrix_product" /\ pc = "call"
          /\ strategy = "fallback"
          /\ lin \in Triples(ColumnComponents) /\ enc \in TestMatrices
          /\ outf = F_0_0
          /\ cpu \in Cpus
       \/ /\ func = "xyz_from_linear" /\ pc = "rgb"
          /\ strategy \in Strategies
          /\ lin \in UnitColumns /\ enc = F_0_0
          /\ outf = F_0_0
          /\ cpu = [x86 |-> FALSE, sse |-> FALSE, sse4_1 |-> FALSE]
       \/ /\ func = "linear_from_xyz" /\ pc = "xyz"
          /\ strategy \in Strategies
          /\ outf \in UnitColumns /\ enc = F_0_0
          /\ lin = F_0_0
          /\ cpu = [x86 |-> FALSE, sse |-> FALSE, sse4_1 |-> FALSE]
    /\ code = 0 /\ out = 0
    /\ branch = "" /\ sub = << >>
    /\ lin2 = F_0_0 /\ out2 = 0 /\ branch2 = ""
    /\ prev = 0 /\ adjacent = FALSE
    /\ no_fma = FALSE /\ threads = << >> /\ bisect = << >>

NextMaths ==
    \/ DotProductFallback \/ DotProductSse \/ DotProductSse4_1
    \/ MathsMatrixProduct \/ XyzFromLinear \/ LinearFromXyz

SpecMaths == InitMaths /\ [][NextMaths]_vars

\* How many threads call the crate side by side.
NumThreads == 2

Threads == 1..NumThreads

\* The arguments of the calls of the threads.
ThreadColumns == {<< F_0_5, F_1_0, F_0_0 >>, << F_1_0, F_1_0, F_1_0 >>}
ThreadCodes == {1, 128}

\* A thread about to call fn(arg): it has asked no probe and computed
\* nothing.
Frame(fn, arg) ==
    [at |-> "call", fn |-> fn, arg |-> arg,
     probes |-> << >>, dot |-> "", dots |-> << >>, ret |-> << >>]

\* row_of_thread with one column for all threads, that of the first
\* thread if it calls xyz_from_linear.
row_of_first_thread(frames, t, fma) ==
    apply_dot(frames[t].dot, fma,
              XYZ_FROM_SRGB_MATRIX[Len(frames[t].ret) + 1],
              IF frames[1].fn = "xyz_from_linear" THEN frames[1].arg
              ELSE frames[t].arg)

\* $dot(&$matrix[i], &$column) in the call of thread t: the next row of
\* XYZ_FROM_SRGB_MATRIX times the column the thread passed.
row_of_thread(frames, t, fma) ==
    apply_dot(frames[t].dot, fma,
              XYZ_FROM_SRGB_MATRIX[Len(frames[t].ret) + 1], frames[t].arg)

\* Thread t calls expand_u8, one read of U8_TO_LINEAR_LUT.
ThreadExpandU8(t) ==
    /\ threads[t].at = "call" /\ threads[t].fn = "expand_u8"
    /\ threads' = [threads EXCEPT ![t].ret = << expand_u8(threads[t].arg) >>,
                                  ![t].at = "done"]
    /\ UNCHANGED << pc, func, target_fma, code, enc, lin, out, outf, branch, sub,
                    lin2, out2, branch2, prev, adjacent, strategy,
                    no_fma, cpu, bisect >>

\* Thread t enters matrix_product: where the target is x86 has_sse is
\* asked next, elsewhere the rows follow with dot_product_fallback.
ThreadMatrixProduct(t) ==
    /\ threads[t].at = "call" /\ threads[t].fn = "xyz_from_linear"
    /\ threads' = [threads EXCEPT
                       ![t].at = IF cpu.x86 THEN "has_sse" ELSE "rows",
                       ![t].dot = IF cpu.x86 THEN "" ELSE matrix_product_dot(<< >>)]
    /\ UNCHANGED << pc, func, target_fma, code, enc, lin, out, outf, branch, sub,
                    lin2, out2, branch2, prev, adjacent, strategy,
                    no_fma, cpu, bisect >>

\* if sse::has_sse() in the call of thread t
ThreadHasSse(t) ==
    /\ threads[t].at = "has_sse"
    /\ threads' = [threads EXCEPT
                       ![t].probes = << has_sse(cpu) >>,
                       ![t].at = IF has_sse(cpu) THEN "has_sse4_1" ELSE "rows",
                       ![t].dot = IF has_sse(cpu) THEN ""
                                  ELSE matrix_product_dot(<< has_sse(cpu) >>)]
    /\ UNCHANGED << pc, func, target_fma, code, enc, lin, out, outf, branch, sub,
                    lin2, out2, branch2, prev, adjacent, strategy,
                    no_fma, cpu, bisect >>

\* if sse::has_sse4_1() in the call of thread t
ThreadHasSse4_1(t) ==
    /\ threads[t].at = "has_sse4_1"
    /\ threads' = [threads EXCEPT
                       ![t].probes = Append(threads[t].probes, has_sse4_1(cpu)),
                       ![t].at = "rows",
                       ![t].dot = matrix_product_dot(
                                      Append(threads[t].probes, has_sse4_1(cpu)))]
    /\ UNCHANGED << pc, func, target_fma, code, enc, lin, out, outf, branch, sub,
                    lin2, out2, branch2, prev, adjacent, strategy,
                    no_fma, cpu, bisect >>

\* One element of matrix_product_body in the call of thread t; the call
\* returns after the third.
ThreadRow(t) ==
    /\ threads[t].at = "rows"
    /\ threads' = [threads EXCEPT
                       ![t].ret = Append(threads[t].ret,
                                         row_of_thread(threads, t, target_fma)),
                       ![t].dots = Append(threads[t].dots, threads[t].dot),
                       ![t].at = IF Len(threads[t].ret) = 2 THEN "done" ELSE "rows"]
    /\ UNCHANGED << pc, func, target_fma, code, enc, lin, out, outf, branch, sub,
                    lin2, out2, branch2, prev, adjacent, strategy,
                    no_fma, cpu, bisect >>

\* Threads that call expand_u8 and xyz_from_linear side by side, on any
\* CPU.
InitThreads ==
    /\ pc = "threads" /\ func = ""
    /\ target_fma \in BOOLEAN
    /\ cpu \in Cpus
    /\ threads \in [Threads -> {Frame("expand_u8", c) : c \in ThreadCodes}
                               \cup {Frame("xyz_from_linear", v) : v \in ThreadColumns}]
    /\ code = 0 /\ enc = F_0_0 /\ lin = F_0_0 /\ out = 0 /\ outf = F_0_0
    /\ branch = "" /\ sub = << >>
    /\ lin2 = F_0_0 /\ out2 = 0 /\ branch2 = ""
    /\ prev = 0 /\ adjacent = FALSE /\ strategy = "fallback"
    /\ no_fma = FALSE /\ bisect = << >>

NextThreads ==
    \E t \in Threads :
        \/ ThreadExpandU8(t) \/ ThreadMatrixProduct(t)
        \/ ThreadHasSse(t) \/ ThreadHasSse4_1(t) \/ ThreadRow(t)

SpecThreads == InitThreads /\ [][NextThreads]_vars

\* One turn of the loop of calc_gamma_threshold.
BisectTurn ==
    /\ pc = "bisect"
    /\ bisect.turn < BISECT_TURNS /\ bisect.last # "Equal"
    /\ \E ordering \in partial_cmp_at(bisect, bisect_mid(bisect.lo, bisect.hi)) :
           bisect' = bisect_arms(bisect, bisect_mid(bisect.lo, bisect.hi), ordering)
    /\ UNCHANGED << pc, func, target_fma, code, enc, lin, out, outf, branch, sub,
                    lin2, out2, branch2, prev, adjacent, strategy,
                    no_fma, cpu, threads >>

\* The loop has ended, by its count or by break: mid is returned.
BisectReturn ==
    /\ pc = "bisect"
    /\ bisect.turn = BISECT_TURNS \/ bisect.last = "Equal"
    /\ pc' = "done"
    /\ UNCHANGED << func, target_fma, code, enc, lin, out, outf, branch, sub,
                    lin2, out2, branch2, prev, adjacent, strategy, rest >>

\* let s0 = calc_gamma_threshold::<f64>(), at its entry.  Beside the locals
\* of the loop bisect holds what the platform's f64 evaluation of the two
\* pieces can tell apart: crossing, surely and maybe.
InitBisect ==
    /\ pc = "bisect" /\ func = "calc_gamma_threshold"
    /\ target_fma = FALSE
    /\ bisect = [lo |-> BISECT_LO, hi |-> BISECT_HI, mid |-> << >>,
                 turn |-> 0, last |-> "",
                 crossing |-> LastLess(0),
                 surely |-> LastLess(1), maybe |-> LastLess(0 - 1)]
    /\ code = 0 /\ enc = F_0_0 /\ lin = F_0_0 /\ out = 0 /\ outf = F_0_0
    /\ branch = "" /\ sub = << >>
    /\ lin2 = F_0_0 /\ out2 = 0 /\ branch2 = ""
    /\ prev = 0 /\ adjacent = FALSE /\ strategy = "fallback"
    /\ no_fma = FALSE /\ threads = << >>
    /\ cpu = [x86 |-> FALSE, sse |-> FALSE, sse4_1 |-> FALSE]

NextBisect == BisectTurn \/ BisectReturn

SpecBisect == InitBisect /\ [][NextBisect]_vars

\* Bit patterns of arguments at which encode_rec709_8bit and
\* encode_rec709_10bit give one code with a fused and another with a
\* separately rounded multiplication and addition.
FusedDiffersAt == {1020116017, 1028044976}

\* The arguments of the calls on a build with or without no-fma: the floats
\* within WalkWindow of those, and the ends and the middle of [0, 1].
NoFmaValues ==
    {from_bits(b + i) : b \in FusedDiffersAt, i \in (0 - WalkWindow)..WalkWindow}
        \cup {F_0_0, Lit(0, 1, 3), F_0_5, F_1_0}

\* One call of a function that multiplies and adds, on a build with or
\* without the feature no-fma and with or without the target feature fma.
InitNoFma ==
    /\ pc = "linear"
    /\ func \in {"u8", "encode_rec709_8bit", "encode_rec709_10bit"}
    /\ no_fma \in BOOLEAN
    /\ target_fma \in BOOLEAN
    /\ lin \in NoFmaValues
    /\ code = 0 /\ enc = F_0_0 /\ out = 0 /\ outf = F_0_0
    /\ branch = "" /\ sub = << >>
    /\ lin2 = F_0_0 /\ out2 = 0 /\ branch2 = ""
    /\ prev = 0 /\ adjacent = FALSE /\ strategy = "fallback"
    /\ cpu = [x86 |-> FALSE, sse |-> FALSE, sse4_1 |-> FALSE]
    /\ threads = << >> /\ bisect = << >>

NextNoFma == CompressU8 \/ EncodeRec709_8bit \/ EncodeRec709_10bit

SpecNoFma == InitNoFma /\ [][NextNoFma]_vars

----------------------------------------------------------------------------
(* The round trips through the 8-bit sRGB functions.                       *)

\* C1: compress_u8(expand_u8(n)) == n for every code n in 0..=255.
RoundTripU8 == (pc = "done" /\ func = "u8") => out = code

\* A round trip through the interpolation piece of compress_u8 has ended.
RoundTripU8Reached ==
    pc = "done" /\ func = "u8" /\ branch = "lut" /\ code = 128 /\ out = 128

\* C2: compress_u8_precise(expand_u8(n)) == n for every code n in 0..=255.
RoundTripU8Precise == (pc = "done" /\ func = "u8_precise") => out = code

\* A round trip through the power piece of compress_u8_precise has ended.
RoundTripU8PreciseReached ==
    pc = "done" /\ func = "u8_precise" /\ branch = "power" /\ code = 200 /\ out = 200

----------------------------------------------------------------------------
(* The round trips through the Rec.709 functions.                          *)

\* C3: compress_rec709_8bit(expand_rec709_8bit(n)) == n for every n in
\* 16..=235 and compress_rec709_10bit(expand_rec709_10bit(n)) == n for every
\* n in 64..=940.
RoundTripRec709 ==
    (pc = "done" /\ func \in {"rec709_8bit", "rec709_10bit"}) => out = code

\* A 10-bit round trip through the two power pieces has ended.
RoundTripRec709Reached ==
    /\ pc = "done" /\ func = "rec709_10bit" /\ branch = "power"
    /\ code = 512 /\ out = 512

\* C5: for every v in 16..=235 the 8-bit expansion of v and the 10-bit
\* expansion of 4 * v take the same piece and give the same value, and of
\* that value the 8-bit compression times four is the 10-bit compression.
Rec709Scaling ==
    (func = "rec709_scaling" /\ pc \in {"linear", "done"}) =>
        /\ branch = branch2
        /\ lin = lin2
        /\ pc = "done" => WrappingMul(out, 4, U16_MAX) = out2

\* Both halves of the scaling test have run on a code of the power piece.
Rec709ScalingReached ==
    /\ pc = "done" /\ func = "rec709_scaling" /\ branch = "power"
    /\ code = 100 /\ out = 100 /\ out2 = 400

----------------------------------------------------------------------------
(* The order of compress_u8.                                               *)

\* C4: compress_u8 does not decrease as its argument grows over [0, 1], and
\* from a float to the float just after it it grows by one at most, across
\* the seams at FAST_START_AT and FAST_START_255_AT and across the edges of
\* the cells of FAST_LUT; the walk starts at code 0 and reaches 255.
CompressU8Increases ==
    pc = "walk" =>
        /\ prev <= out
        /\ adjacent => out - prev <= 1
        /\ FLe(lin, Lit(0, 1, 4)) => out = 0
        /\ lin = F_1_0 => out = 255

\* The walk has crossed both seams and reached 1.0.
CompressU8IncreasesReached ==
    pc = "walk" /\ adjacent /\ lin = F_1_0 /\ prev = 255 /\ out = 255

----------------------------------------------------------------------------
(* Arguments outside the nominal range.                                    *)

\* The codes of 0.0 and of 1.0.
LowestCode(f) ==
    IF f \in {"u8", "u8_precise"} THEN 0 ELSE IF f = "rec709_8bit" THEN 16 ELSE 64

HighestCode(f) ==
    IF f \in {"u8", "u8_precise"} THEN 255 ELSE IF f = "rec709_8bit" THEN 235 ELSE 940

IntegerCompressor == func \in {"u8", "u8_precise", "rec709_8bit", "rec709_10bit"}

\* C6: compress_u8, compress_u8_precise, compress_rec709_8bit and
\* compress_rec709_10bit return for every s < 0, -infinity included, the
\* code of 0.0 (0, 0, 16, 64) and for every s > 1, +infinity included, the
\* code of 1.0 (255, 255, 235, 940).
CompressorsClamp ==
    (pc = "done" /\ IntegerCompressor) =>
        /\ FLe(lin, F_0_0) => out = LowestCode(func)
        /\ FGe(lin, F_1_0) => out = HighestCode(func)

\* compress_rec709_10bit has been called with +infinity.
CompressorsClampReached ==
    pc = "done" /\ func = "rec709_10bit" /\ lin = Inf(0) /\ out = 940

\* C7 as claimed: compress_normalised returns for every s < 0 its value at
\* 0.0 and for every s > 1 its value at 1.0, so that its result lies in
\* [0, 1].
NormalisedClamps ==
    (pc = "done" /\ func = "normalised" /\ ~IsNaN(lin)) =>
        /\ FLt(lin, F_0_0) => outf = compress_normalised(target_fma, F_0_0, F_0_0)
        /\ FGt(lin, F_1_0) => outf = compress_normalised(target_fma, F_1_0, F_1_0)
        /\ FGe(outf, F_0_0) /\ FLe(outf, F_1_0)

\* C7 as the code has it: compress_normalised does not clamp.  For every
\* s < 0 it returns 12.92 * s, which is below zero, and for every s >= 2 a
\* value above one.
NormalisedDoesNotClamp ==
    (pc = "done" /\ func = "normalised") =>
        /\ FLt(lin, F_0_0) => outf = FMul(F_12_92, lin) /\ FLt(outf, F_0_0)
        /\ FGe(lin, FromInt(2)) => FGt(outf, F_1_0)

\* compress_normalised has been called with -1.0.
NormalisedDoesNotClampReached ==
    /\ pc = "done" /\ func = "normalised"
    /\ lin = FNeg(F_1_0) /\ outf = FNeg(F_12_92)

\* C8: given NaN, expand_normalised, compress_normalised, compress_u8,
\* compress_u8_precise, compress_rec709_8bit and compress_rec709_10bit each
\* take their linear piece.
NaNTakesLinearPiece ==
    /\ (pc = "done" /\ IsNaN(lin)) => branch = "linear"
    /\ (pc = "linear" /\ func = "normalised" /\ IsNaN(enc)) => branch = "linear"

\* compress_u8 has been called with NaN.
NaNTakesLinearPieceReached ==
    pc = "done" /\ func = "u8" /\ IsNaN(lin) /\ branch = "linear"

\* C9 as claimed: given NaN, the integer compressors return their lowest
\* code, and expand_normalised and compress_normalised a float that is not
\* NaN.
NaNNeverReturned ==
    /\ (pc = "done" /\ IntegerCompressor /\ IsNaN(lin)) => out = LowestCode(func)
    /\ (pc = "linear" /\ func = "normalised" /\ IsNaN(enc)) => ~IsNaN(lin)
    /\ (pc = "done" /\ func = "normalised" /\ IsNaN(lin)) => ~IsNaN(outf)

\* C9 as the code has it: given NaN, the integer compressors return their
\* lowest code, and expand_normalised and compress_normalised return NaN.
NaNReturnedByNormalised ==
    /\ (pc = "done" /\ IntegerCompressor /\ IsNaN(lin)) => out = LowestCode(func)
    /\ (pc = "linear" /\ func = "normalised" /\ IsNaN(enc)) => IsNaN(lin)
    /\ (pc = "done" /\ func = "normalised" /\ IsNaN(lin)) => IsNaN(outf)

\* expand_normalised and then compress_normalised have been called with NaN.
NaNReturnedByNormalisedReached ==
    pc = "done" /\ func = "normalised" /\ IsNaN(enc) /\ IsNaN(lin) /\ IsNaN(outf)

\* C10: expand_rec709_8bit returns 0.0 for every e <= 16 and 1.0 for every
\* e >= 235, expand_rec709_10bit 0.0 for every e <= 64 and 1.0 for every
\* e >= 940 up to the largest u16; the subtraction e - low is evaluated with
\* e > low only, so that it does not wrap around.
Rec709ExpandClamps ==
    (pc = "linear" /\ func \in {"rec709_8bit", "rec709_10bit"}) =>
        /\ code <= LowestCode(func) => lin = F_0_0
        /\ code >= HighestCode(func) => lin = F_1_0
        /\ sub # << >> =>
               /\ sub[1] > sub[2]
               /\ WrappingSub(sub[1], sub[2], U16_MAX) = sub[1] - sub[2]

\* expand_rec709_10bit has been called with the largest u16.
Rec709ExpandClampsReached ==
    pc = "linear" /\ func = "rec709_10bit" /\ code = U16_MAX /\ lin = F_1_0

----------------------------------------------------------------------------
(* src/rec709.rs: the affine coding of the studio range.                   *)

\* C11: for every f32, NaN included, encode_rec709_8bit returns a code in
\* [16, 235] and encode_rec709_10bit a code in [64, 940]; every value <= 0
\* gives the low bound and every value >= 1 the high bound.
EncodeInRange ==
    (pc = "done" /\ func \in {"encode_rec709_8bit", "encode_rec709_10bit"}) =>
        /\ out >= (IF func = "encode_rec709_8bit" THEN 16 ELSE 64)
        /\ out <= (IF func = "encode_rec709_8bit" THEN 235 ELSE 940)
        /\ FLe(lin, F_0_0) => out = (IF func = "encode_rec709_8bit" THEN 16 ELSE 64)
        /\ FGe(lin, F_1_0) => out = (IF func = "encode_rec709_8bit" THEN 235 ELSE 940)

\* The bounds of the studio range of a decoder.
DecodeLow == IF func = "decode_rec709_8bit" THEN 16 ELSE 64
DecodeHigh == IF func = "decode_rec709_8bit" THEN 235 ELSE 940

\* C12: decode_rec709_8bit(v) is (clamp(v, 16, 235) - 16) / 219 and
\* decode_rec709_10bit(v) is (clamp(v, 64, 940) - 64) / 876, rounded to the
\* nearest f32: 0.0 at and below the low bound, 1.0 at and above the high
\* bound, within [0, 1], not decreasing in v, and the integer subtraction
\* does not underflow.
DecodeClamps ==
    (pc = "walk" /\ func \in {"decode_rec709_8bit", "decode_rec709_10bit"}) =>
        /\ code <= DecodeLow => lin = F_0_0
        /\ code >= DecodeHigh => lin = F_1_0
        /\ (DecodeLow < code /\ code < DecodeHigh) =>
               lin = RoundRoot(0, 1, DecodeHigh - DecodeLow, 1,
                               BN(code - DecodeLow), 0)
        /\ FGe(lin, F_0_0) /\ FLe(lin, F_1_0)
        /\ FLe(lin2, lin)
        /\ sub[1] >= sub[2]
        /\ (func = "decode_rec709_8bit" /\ code = 126) => lin = Lit(0, 5022831, 7)
        /\ (func = "decode_rec709_10bit" /\ code = 507) => lin = Lit(0, 50570774, 8)

\* The walk with decode_rec709_10bit has reached the largest u16.
DecodeClampsReached ==
    /\ pc = "walk" /\ func = "decode_rec709_10bit"
    /\ code = U16_MAX /\ lin = F_1_0 /\ lin2 = F_1_0

----------------------------------------------------------------------------
(* The ranges of the results.                                              *)

\* C13: for every f32, compress_rec709_8bit returns a code in [16, 235] and
\* compress_rec709_10bit a code in [64, 940]: nothing above RANGE is added
\* to the low bound, so that the sum does not wrap around (a sum that did
\* would lie below the low bound); 0.0 gives the low and 1.0 the high
\* bound.
CompressRec709InRange ==
    (pc = "done" /\ func \in {"rec709_8bit", "rec709_10bit"}) =>
        /\ LowestCode(func) <= out /\ out <= HighestCode(func)
        /\ lin = F_0_0 => out = LowestCode(func)
        /\ lin = F_1_0 => out = HighestCode(func)

\* compress_rec709_8bit has been called with the largest finite f32.
CompressRec709InRangeReached ==
    /\ pc = "done" /\ func = "rec709_8bit"
    /\ lin = MkFin(0, TwoP24 - 1, EMAX) /\ out = 235

\* C14: expand_u8 does not decrease over 0..=255, expand_u8(0) is 0.0,
\* expand_u8(255) is 1.0, every result lies in [0, 1], and the index is
\* inside the 256 entries of U8_TO_LINEAR_LUT.
ExpandU8Increases ==
    (pc = "walk" /\ func = "expand_u8") =>
        /\ FLe(lin2, lin)
        /\ code = 0 => lin = F_0_0
        /\ code = 255 => lin = F_1_0
        /\ FGe(lin, F_0_0) /\ FLe(lin, F_1_0)
        /\ code \in DOMAIN U8_TO_LINEAR_LUT
        /\ Cardinality(DOMAIN U8_TO_LINEAR_LUT) = 256

\* The walk with expand_u8 has reached code 255.
ExpandU8IncreasesReached ==
    pc = "walk" /\ func = "expand_u8" /\ code = 255 /\ lin = F_1_0 /\ FLt(lin2, lin)

----------------------------------------------------------------------------
(* The three-component wrappers.                                           *)

\* C20: linear_from_u8, u8_from_linear, linear_from_normalised and
\* normalised_from_linear return three channels, and the channel at each
\* position is the scalar function (expand_u8, compress_u8,
\* expand_normalised, compress_normalised) of the argument's channel at the
\* same position.
WrappersPerChannel ==
    pc = "done" =>
        /\ func = "linear_from_u8" =>
               /\ Len(lin) = 3
               /\ \A i \in 1..3 : lin[i] = expand_u8(code[i])
        /\ func = "u8_from_linear" =>
               /\ Len(out) = 3
               /\ \A i \in 1..3 : out[i] = compress_u8(lin[i])
        /\ func = "linear_from_normalised" =>
               /\ Len(lin) = 3
               /\ \A i \in 1..3 :
                      \E pw \in expand_normalised_powf(enc[i]) :
                          lin[i] = expand_normalised(enc[i], pw)
        /\ func = "normalised_from_linear" =>
               /\ Len(outf) = 3
               /\ \A i \in 1..3 :
                      \E pw \in compress_normalised_powf(lin[i]) :
                          outf[i] = compress_normalised(target_fma, lin[i], pw)

\* u8_from_linear has been called on a colour of three different channels.
WrappersPerChannelReached ==
    /\ pc = "done" /\ func = "u8_from_linear"
    /\ lin = << F_1_0, F_0_0, F_0_5 >>
    /\ out = << 255, 0, compress_u8(F_0_5) >>
    /\ out[3] \notin {0, 255}

----------------------------------------------------------------------------
(* src/xyz.rs: the matrices and the white point.                           *)

\* C16: for every RGB triple of the grid {0/15, ..., 15/15}^3,
\* linear_from_xyz(xyz_from_linear(rgb)) is within the absolute epsilon
\* 0.000001 of rgb in each component, as test_reversible_conversion
\* compares them.
XyzRoundTrip ==
    (pc = "done" /\ func = "reversible") =>
        \A i \in 1..3 : abs_diff_eq(lin[i], lin2[i], Lit(0, 1, 6))

\* A triple of the grid has gone through both products on a CPU with
\* SSE 4.1 and has come back changed.
XyzRoundTripReached ==
    /\ pc = "done" /\ func = "reversible" /\ strategy = "sse4.1"
    /\ lin[3] = F_1_0 /\ lin # lin2

\* What C17 says of the constants alone.
D65Constants ==
    /\ u32_sub(D65_DENOM, D65_x_NUM) # NoU32
    /\ u32_sub(u32_sub(D65_DENOM, D65_x_NUM), D65_y_NUM) = 358271
    /\ D65_xyY = << Lit(0, 312713, 6), Lit(0, 329016, 6), F_1_0 >>
    /\ D65_XYZ = << RoundRoot(0, 1, 329016, 1, BN(312713), 0),
                    F_1_0,
                    RoundRoot(0, 1, 329016, 1, BN(358271), 0) >>
    /\ BMul(BMul(BN(D65_x_NUM), BN(D65_DENOM)), BN(329016))
           = BMul(BMul(BN(D65_y_NUM), BN(D65_DENOM)), BN(312713))

\* C17: D65_xyY is (312713 / 1000000, 329016 / 1000000, 1), and D65_XYZ is
\* [x / y, 1, (1 - x - y) / y] for these x and y: its components are the
\* f32 nearest to 312713 / 329016, 1 and 358271 / 329016; neither
\* subtraction of D65_DENOM - D65_x_NUM - D65_y_NUM underflows; and each
\* component of D65_XYZ is within one ULP of the one test_d65 computes in
\* f32 from D65_xyY.
D65WhitePoint ==
    /\ D65Constants
    /\ (pc = "d65" /\ code > 0) =>
           /\ outf = D65_XYZ[code]
           /\ ulps_eq(lin, outf, F32_EPSILON, 1)

\* test_d65 has compared the third components, which differ by one ULP.
D65WhitePointReached ==
    /\ pc = "d65" /\ code = 3
    /\ outf = D65_XYZ[3]
    /\ to_bits(outf) - to_bits(lin) = 1

\* A finite f32 that is not negative, as the integer a / 2^e0.
ScaledInt(a, e0) == BShl(BN(a.m), a.e - e0)

\* The least exponent of the components of xyz.
MinE(xyz) == Min(xyz[1].e, Min(xyz[2].e, xyz[3].e))

\* | A - B |
BAbsDiff(A, B) == IF BCmp(A, B) >= 0 THEN BSub(A, B) ELSE BSub(B, A)

\* | C / S - num / D65_DENOM | <= 2^-25, in exact arithmetic.
ChromaWithin(C, S, num) ==
    BCmp(BShl(BAbsDiff(BMul(C, BN(D65_DENOM)), BMul(BN(num), S)), 25),
         BMul(BN(D65_DENOM), S)) <= 0

\* The chromaticity coordinate k of xyz is within 2^-25 of num / D65_DENOM.
ChromaAt(xyz, k, num, e0) ==
    ChromaWithin(ScaledInt(xyz[k], e0),
                 BAdd(BAdd(ScaledInt(xyz[1], e0), ScaledInt(xyz[2], e0)),
                      ScaledInt(xyz[3], e0)),
                 num)

----------------------------------------------------------------------------
(* src/lib.rs: the features of the crate.                                  *)

\* a * b + c with the product rounded before the addition.
SeparatelyRounded(a, b, c) == FAdd(FMul(a, b), c)

\* C21: on a build with the feature no-fma no operation is a fused
\* multiply-add: the code of compress_u8's linear piece and of the
\* Rec.709 encoders is the truncation of a product rounded to f32 plus a
\* constant, rounded again.
NoFmaNeverFused ==
    (pc = "done" /\ no_fma) =>
        /\ (func = "u8" /\ branch = "linear") =>
               out = AsUInt(SeparatelyRounded(COMPRESS_U8_D, f32_max(lin, F_0_0),
                                              F_0_5), U8_MAX)
        /\ func = "encode_rec709_8bit" =>
               out = AsUInt(SeparatelyRounded(f32_clamp(lin, F_0_0, F_1_0),
                                              FromInt(235 - 16), Lit(0, 165, 1)),
                            U8_MAX)
        /\ func = "encode_rec709_10bit" =>
               out = AsUInt(SeparatelyRounded(f32_clamp(lin, F_0_0, F_1_0),
                                              FromInt(940 - 64), Lit(0, 645, 1)),
                            U16_MAX)

----------------------------------------------------------------------------
(* The interpolation branch of compress_u8.                                *)

\* What the asserts commented out in compress_u8 say of the constants:
\* the least argument of the branch has a bit pattern above
\* FAST_BITS_OFFSET, and the greatest, the float below FAST_START_255_AT,
\* has the last but one index of FAST_LUT.
FastLutCovers ==
    /\ Len(FAST_LUT) = 136
    /\ to_bits(next_after(FAST_START_AT)) >= FAST_BITS_OFFSET
    /\ FastIndex(next_after(FAST_START_AT)) = 0
    /\ FastIndex(from_bits(to_bits(FAST_START_255_AT) - 1)) + 1 = Len(FAST_LUT) - 1

\* C23: for every s with FAST_START_AT < s < FAST_START_255_AT the
\* subtraction s.to_bits() - FAST_BITS_OFFSET does not underflow and the
\* indices lft_x and rht_x = lft_x + 1 are below FAST_LUT.len() = 136; the
\* two entries are those of the edges that bracket s.  The bit pattern of
\* a positive float grows with the float, so the walk over the floats at
\* the ends of the branch and at every edge covers the branch.
FastIndexInBounds ==
    /\ FastLutCovers
    /\ (pc = "walk" /\ branch = "lut") =>
           /\ to_bits(lin) - FAST_BITS_OFFSET >= 0
           /\ FastIndex(lin) >= 0
           /\ FastIndex(lin) + 1 < Len(FAST_LUT)
           /\ FLe(FastEdge(FastIndex(lin)), lin)
           /\ FLt(lin, FastEdge(FastIndex(lin) + 1))

\* The walk is at the float below FAST_START_255_AT, in the last cell.
FastIndexInBoundsReached ==
    /\ pc = "walk" /\ branch = "lut"
    /\ to_bits(lin) = to_bits(FAST_START_255_AT) - 1
    /\ FastIndex(lin) = 134

----------------------------------------------------------------------------
(* The dot products and the matrix product of maths.rs.                    *)

\* `x as i32` of a float with a whole value below 1000 in magnitude.
IntOf(x) == IF x.sign = 1 THEN 0 - AsUInt(FNeg(x), 1000) ELSE AsUInt(x, 1000)

\* a0*b0 + a1*b1 + a2*b2 of operands with whole components, in integers.
IntDot(a, b) ==
    IntOf(a[1]) * IntOf(b[1]) + IntOf(a[2]) * IntOf(b[2]) + IntOf(a[3]) * IntOf(b[3])

\* C25: dot_product_fallback, dot_product_sse and dot_product_sse4_1 return
\* a0*b0 + a1*b1 + a2*b2, each product counted once and nothing added for
\* the padding lane, so they return equal values (as f32 compares them,
\* a zero of either sign being zero) for operands whose products and sums
\* are exact, as [1, 2, 3] . [2, 20, 200] == 642.
DotProductsAgree ==
    (pc = "done" /\ func = "dot_product") =>
        FEq(outf, FromInt(IntDot(lin, enc)))

\* The SSE dot product has returned 642 for the operands of the tests.
DotProductsAgreeReached ==
    /\ pc = "done" /\ func = "dot_product" /\ strategy = "sse"
    /\ lin = F32s(<< 1, 2, 3 >>) /\ enc = F32s(<< 2, 20, 200 >>)
    /\ outf = FromInt(642)

\* The index of the component 1.0 of a column of the unit matrix.
UnitIndex(column) == CHOOSE j \in 1..3 : column[j] = F_1_0

\* Component i of the product is row i of the matrix times the column.
RowsTimesColumn(matrix, column, product) ==
    \A i \in 1..3 : FEq(product[i], FromInt(IntDot(matrix[i], column)))

\* Column j of the matrix.
ColumnOf(matrix, j, product) ==
    \A i \in 1..3 : FEq(product[i], matrix[i][j])

\* C26: matrix_product(matrix, column) returns the dot products of the
\* rows 0, 1, 2 of the matrix with the column in that order, so component
\* i is matrix[i][0]*column[0] + matrix[i][1]*column[1] +
\* matrix[i][2]*column[2]; xyz_from_linear applies XYZ_FROM_SRGB_MATRIX and
\* linear_from_xyz applies SRGB_FROM_XYZ_MATRIX, which column j of the unit
\* matrix shows as column j of the matrix.
MatrixProductByRows ==
    /\ (pc = "done" /\ func = "matrix_product") =>
           RowsTimesColumn(enc, lin, outf)
    /\ (pc = "done" /\ func = "xyz_from_linear") =>
           ColumnOf(XYZ_FROM_SRGB_MATRIX, UnitIndex(lin), outf)
    /\ (pc = "done" /\ func = "linear_from_xyz") =>
           ColumnOf(SRGB_FROM_XYZ_MATRIX, UnitIndex(outf), lin2)

\* test_matrix_product: the product is [321, 654, 987].
MatrixProductByRowsReached ==
    /\ pc = "done" /\ func = "matrix_product"
    /\ enc = << F32s(<< 1, 2, 3 >>), F32s(<< 4, 5, 6 >>), F32s(<< 7, 8, 9 >>) >>
    /\ lin = F32s(<< 1, 10, 100 >>)
    /\ outf = F32s(<< 321, 654, 987 >>)

----------------------------------------------------------------------------
(* Calls from several threads.                                             *)

\* What the call fn(arg) returns when it runs alone.
Alone(fn, arg) ==
    IF fn = "expand_u8" THEN << expand_u8(arg) >>
    ELSE xyz_from_linear(matrix_product_dot(matrix_product_probes(cpu)),
                         target_fma, arg)

\* Every call that has returned returned what it returns alone, and the
\* probes of all calls gave the same answers.
ReturnedAsAlone ==
    /\ \A t \in DOMAIN threads :
           threads[t].at = "done" =>
               threads[t].ret = Alone(threads[t].fn, threads[t].arg)
    /\ \A t \in DOMAIN threads : \A u \in DOMAIN threads :
           \A i \in DOMAIN threads[t].probes :
               i \in DOMAIN threads[u].probes =>
                   threads[t].probes[i] = threads[u].probes[i]

\* A step of a call writes nothing but the call's own frame.
WritesOwnFrame ==
    /\ cpu' = cpu /\ target_fma' = target_fma
    /\ DOMAIN threads' = DOMAIN threads
    /\ \A t \in DOMAIN threads : \A u \in DOMAIN threads :
           (threads'[t] # threads[t] /\ threads'[u] # threads[u]) => t = u
    /\ \A t \in DOMAIN threads :
           threads'[t].fn = threads[t].fn /\ threads'[t].arg = threads[t].arg

Confirmed(probes) ==
    IF Len(probes) = 2 /\ probes[1] /\ probes[2] THEN "sse4.1"
    ELSE IF Len(probes) = 2 /\ probes[1] /\ ~probes[2] THEN "sse"
    ELSE "fallback"

\* C24: a call of matrix_product runs dot_product_sse4_1 only after both
\* has_sse and has_sse4_1 returned true in that call, dot_product_sse only
\* after has_sse returned true and has_sse4_1 false, dot_product_fallback
\* in every other case, a target other than x86 among them; the three rows
\* of a call are computed by the same dot product, and a probe returns true
\* only on a CPU with the feature.
KernelConfirmed ==
    \A t \in DOMAIN threads :
        /\ \A i \in DOMAIN threads[t].dots :
               /\ threads[t].dots[i] = Confirmed(threads[t].probes)
               /\ threads[t].dots[i] = threads[t].dots[1]
               /\ ~cpu.x86 => threads[t].dots[i] = "fallback"
        /\ (Len(threads[t].probes) >= 1 /\ threads[t].probes[1]) => (cpu.x86 /\ cpu.sse)
        /\ (Len(threads[t].probes) >= 2 /\ threads[t].probes[2]) => (cpu.x86 /\ cpu.sse4_1)
        /\ threads[t].at = "done" /\ threads[t].fn = "xyz_from_linear" =>
               Len(threads[t].dots) = 3

\* A call on a CPU with SSE and without SSE 4.1 has computed its three
\* rows with dot_product_sse.
KernelConfirmedReached ==
    /\ pc = "threads"
    /\ cpu.sse /\ ~cpu.sse4_1
    /\ threads[1].at = "done"
    /\ threads[1].dots = << "sse", "sse", "sse" >>

----------------------------------------------------------------------------
(* The pieces of the Rec.709 functions.                                    *)

\* (e - low) / RANGE <= 4.5 * 0.018, in integers.
BelowBreak(e, k) == (e - k.low) * 1000 <= 81 * (k.high - k.low)

\* The constants of the round trip under call.
Rec709Of(f) == IF f = "rec709_8bit" THEN REC709_8BIT ELSE REC709_10BIT

\* C27: for every nominal code e (16 < e < 235 with THRESHOLD 33,
\* 64 < e < 940 with THRESHOLD 134) expand_rec709 takes its linear piece
\* iff (e - low) / RANGE <= 4.5 * 0.018, and compress_rec709 of the
\* expanded value takes its linear piece (the value is not above 0.018)
\* iff the expansion took its linear piece.
Rec709PiecesAgree ==
    /\ REC709_8BIT.THRESHOLD = 33 /\ REC709_10BIT.THRESHOLD = 134
    /\ (/\ pc = "done" /\ func \in {"rec709_8bit", "rec709_10bit"}
        /\ Rec709Of(func).low < code /\ code < Rec709Of(func).high) =>
           /\ expand_rec709_branch(code, Rec709Of(func)) = "linear"
                  <=> BelowBreak(code, Rec709Of(func))
           /\ branch = "linear"
                  <=> expand_rec709_branch(code, Rec709Of(func)) = "linear"
           /\ branch = compress_rec709_branch(lin)

\* The round trips of the last codes of the linear pieces and of the first
\* of the power pieces have been made.
Rec709PiecesAgreeReached ==
    /\ pc = "done"
    /\ \/ func = "rec709_8bit" /\ code = 33 /\ branch = "linear"
       \/ func = "rec709_10bit" /\ code = 135 /\ branch = "power"

----------------------------------------------------------------------------
(* The table build.rs generates.                                           *)

\* x is within half a unit in its last place of (n / d)^(12/5): with
\* x = m * 2^e, (2m - 1)^5 d^12 <= n^12 2^(5 (1 - e)) <= (2m + 1)^5 d^12.
NearestPow(x, n, d) ==
    /\ BCmp(BMul(BPow(BN(2 * x.m - 1), 5), BPow(BN(d), 12)),
            BShl(BPow(BN(n), 12), 5 * (1 - x.e))) <= 0
    /\ BCmp(BShl(BPow(BN(n), 12), 5 * (1 - x.e)),
            BMul(BPow(BN(2 * x.m + 1), 5), BPow(BN(d), 12))) <= 0

\* The table has the entries 0..=255, and build.rs takes the linear formula
\* up to the code 10.
U8TableShape ==
    /\ DOMAIN U8_TO_LINEAR_LUT = 0..255
    /\ Cardinality(DOMAIN U8_TO_LINEAR_LUT) = 256
    /\ AsUInt(FMul(E_0, F_255), U8_MAX) = 10

\* C28: U8_TO_LINEAR_LUT has 256 entries, and entry v is the expansion
\* formula at v / 255 with the piece expand_normalised selects there:
\* 10 v / 32946 where v / 255 <= E_0, the codes 0..=10, and
\* ((1000 v + 55 * 255) / (1055 * 255))^2.4 for the codes above.
U8TableFormula ==
    /\ U8TableShape
    /\ (pc = "walk" /\ func = "expand_u8") =>
           /\ code <= 10 <=>
                  expand_normalised_branch(FDiv(FromInt(code), F_255)) = "linear"
           /\ code <= 10 => lin = FDiv(FromInt(10 * code), FromInt(32946))
           /\ code > 10 =>
                  NearestPow(lin, 1000 * code + 55 * 255, 1055 * 255)

\* The walk is at the code 11, the first of the power formula.
U8TableFormulaReached ==
    /\ pc = "walk" /\ func = "expand_u8" /\ code = 11
    /\ FLt(lin2, lin)

----------------------------------------------------------------------------
(* Decoding and encoding again in rec709.rs.                               *)

\* The code v brought into low..high.
Nominal(v, low, high) == IF v < low THEN low ELSE IF v > high THEN high ELSE v

\* C29: encode_rec709_8bit(decode_rec709_8bit(v)) == clamp(v, 16, 235) for
\* every u8 v and encode_rec709_10bit(decode_rec709_10bit(v)) ==
\* clamp(v, 64, 940) for every u16 v, so that every nominal code comes back
\* as itself.
RemapRoundTrip ==
    /\ (pc = "done" /\ func = "remap_rec709_8bit") => out = Nominal(code, 16, 235)
    /\ (pc = "done" /\ func = "remap_rec709_10bit") => out = Nominal(code, 64, 940)

\* The nominal 10-bit code 507 has come back as itself.
RemapRoundTripReached ==
    /\ pc = "done" /\ func = "remap_rec709_10bit"
    /\ code = 507 /\ out = 507

----------------------------------------------------------------------------
(* The bisection of build.rs.                                              *)

\* lo <= mid <= hi inside the first bracket, after at most 64 turns.
BisectOrdered ==
    /\ bisect.turn <= 64
    /\ BCmp(BISECT_LO, bisect.lo) <= 0
    /\ BCmp(bisect.lo, bisect.hi) <= 0
    /\ BCmp(bisect.hi, BISECT_HI) <= 0
    /\ bisect.turn >= 1 =>
           /\ BCmp(bisect.lo, bisect.mid) <= 0
           /\ BCmp(bisect.mid, bisect.hi) <= 0
    /\ (pc = "done") => (bisect.turn = 64 \/ bisect.last = "Equal")

\* C30, as the claim states it: the loop ends after at most 64 turns, at
\* every turn 0.0030 <= lo <= mid <= hi <= 0.0032, the linear piece is
\* below the power piece at lo and above it at hi, and so [lo, hi] contains
\* the crossing point of 12.92 x and 1.055 x^(5/12) - 0.055.
BisectBracketsCrossing ==
    (pc \in {"bisect", "done"}) =>
        /\ BisectOrdered
        /\ BCmp(bisect.lo, bisect.crossing) <= 0
        /\ BCmp(bisect.hi, bisect.crossing) > 0

\* The evaluation hides less than 2^11 f64 on either side of the crossing
\* point.
BisectMargin ==
    /\ BCmp(bisect.crossing, BAdd(bisect.surely, BN(2 ^ 11))) < 0
    /\ BCmp(bisect.maybe, BAdd(bisect.crossing, BN(2 ^ 11))) < 0
    /\ BCmp(bisect.surely, bisect.crossing) <= 0
    /\ BCmp(bisect.crossing, bisect.maybe) <= 0

\* The pieces as evaluated: at a lo the loop has assigned the linear piece
\* was found below, at a hi it has assigned it was found above, which it
\* is not found where it is surely the other way.
BisectAsEvaluated ==
    /\ bisect.lo # BISECT_LO => BCmp(bisect.lo, bisect.maybe) <= 0
    /\ bisect.hi # BISECT_HI => BCmp(bisect.hi, bisect.surely) > 0

\* lo does not decrease and hi does not increase.
BisectNarrows ==
    /\ BCmp(bisect.lo, bisect'.lo) <= 0
    /\ BCmp(bisect'.hi, bisect.hi) <= 0

\* C30, amended: the loop ends after at most 64 turns, at every turn
\* 0.0030 <= lo <= mid <= hi <= 0.0032, lo never decreases and hi never
\* increases, the linear piece as evaluated in f64 was below the power piece
\* at every lo the loop assigned and above it at every hi it assigned;
\* the returned S_0 lies inside the first bracket and inside the last
\* [lo, hi], which lies within 2^-50 of the crossing point.
BisectBrackets ==
    /\ [](BisectMargin /\ BisectOrdered /\ BisectAsEvaluated)
    /\ [][BisectNarrows]_vars

\* The loop has ended by break at its 42nd turn and returned
\* 0.003130668442500564, the run of build.rs with glibc's pow; the crossing
\* point is above hi.
BisectBracketsReached ==
    /\ pc = "done" /\ bisect.last = "Equal" /\ bisect.turn = 42
    /\ bisect.mid = BAdd(BMul(BN(7218829), BN(1000000000)), BN(942305849))
    /\ BCmp(bisect.hi, bisect.crossing) < 0

=============================================================================
